---- MODULE Spec2Model ----
(***************************************************************************)
(* CodeGrapher (src/main.py): the graph builder as a state machine.        *)
(*                                                                         *)
(* A repository is a set of source files of one language.  build_graph     *)
(* processes the files in the order the directory scan yields them, merges *)
(* every parser's nodes and edges, resolves the "unresolved::" edges and   *)
(* constructs the graph; the hierarchical layout and the JSON export read  *)
(* the result.                                                             *)
(*                                                                         *)
(* Representation.                                                         *)
(*  - A node id is a tuple in place of the formatted string:               *)
(*      <<file>>                         for the file id "file"            *)
(*      <<file, name, line>>             for "file::name:line"             *)
(*      <<file, cls, cline, name, line>> for "file::cls:cline::name:line"  *)
(*      <<"unresolved::", name>>         for "unresolved::name"            *)
(*    NoId (the empty tuple) stands for None.                              *)
(*  - A dict is a sequence of entries in insertion order; assigning to a   *)
(*    key that is present replaces the entry where it stands.              *)
(*  - A source file is the sequence of its lines (Java) or of its          *)
(*    top-level statements (Python), each described by what the parser's   *)
(*    regular expressions / AST visitor find in it.                        *)
(***************************************************************************)
EXTENDS Integers, Sequences, FiniteSets, TLC

VARIABLES
    language,          \* self.language
    repo,              \* path -> index of the file's content (0: no such file)
    pc,                \* position in the pipeline of __main__
    pending,           \* files the directory scan has not yielded yet
    file_count,        \* build_graph's file_count
    nodes,             \* self.nodes (dict, in insertion order)
    edges,             \* self.edges (list)
    resolver_calls,    \* invocations of _resolve_cross_file_references
    pre_edges,         \* self.edges on entry to the latest resolver pass
    resolved_count,    \* the latest pass's resolved_count
    unresolved_count,  \* the latest pass's unresolved_count
    graph,             \* self.graph
    positions,         \* HierarchicalLayout.positions
    node_sizes,        \* HierarchicalLayout.node_sizes
    exported,          \* the document export_to_json writes
    stats,             \* what get_statistics returns
    circles,           \* the circle-packing layout's radii and centers
    prev               \* what the previous build over this repository produced

vars == <<language, repo, pc, pending, file_count, nodes, edges, resolver_calls,
          pre_edges, resolved_count, unresolved_count, graph, positions,
          node_sizes, exported, stats, circles, prev>>

-----------------------------------------------------------------------------
(* Bounds *)

\* Number of file paths a repository may hold.
MaxFiles == 2

\* How often _resolve_cross_file_references is invoked on one builder.
MaxResolverCalls == 2

\* Number of nodes of a node set handed to the stages directly.
MaxNodes == 3

-----------------------------------------------------------------------------
(* Data model: NodeType, CodeNode, CodeEdge *)

NoId == <<>>
NoStr == ""

FILE == "file"
CLASS == "class"
METHOD == "method"
FUNCTION == "function"
IMPORT == "import"
INTERFACE == "interface"

CodeNode(id, name, type, line, parent_id) ==
    [id |-> id, name |-> name, type |-> type, line |-> line, parent_id |-> parent_id]

NoMeta == [k \in {} |-> NoStr]

CodeEdge(source, target, type, metadata) ==
    [source |-> source, target |-> target, type |-> type, metadata |-> metadata]

\* dict.get(key, default)
Get(d, key, default) == IF key \in DOMAIN d THEN d[key] ELSE default

Unresolved(name) == <<"unresolved::", name>>

\* target.startswith("unresolved::")
IsUnresolved(target) == Len(target) = 2 /\ target[1] = "unresolved::"

\* target.replace("unresolved::", "")
TargetName(target) == target[2]

\* d[node.id] = node on a dict of nodes kept in insertion order
DictSet(d, n) ==
    IF \E i \in 1..Len(d) : d[i].id = n.id
    THEN [i \in 1..Len(d) |-> IF d[i].id = n.id THEN n ELSE d[i]]
    ELSE Append(d, n)

RECURSIVE DictUpdate(_, _)
\* d.update(other)
DictUpdate(d, other) ==
    IF other = <<>> THEN d
    ELSE DictUpdate(DictSet(d, Head(other)), Tail(other))

Ids(d) == {d[i].id : i \in 1..Len(d)}

\* d.get(id): the entry, or NoNode
NoNode == CodeNode(NoId, NoStr, NoStr, 0, NoId)
NodeGet(d, id) ==
    IF id \in Ids(d) THEN d[CHOOSE i \in 1..Len(d) : d[i].id = id] ELSE NoNode

-----------------------------------------------------------------------------
(* Repository: paths and file contents *)

\* Relative paths, in the order str compares them.
PathName == <<"a.src", "b.src", "c.src", "d.src", "e.src">>
Paths == 1..MaxFiles
FileId(p) == <<PathName[p]>>

Languages == {"java", "python", "go"}

\* ---- Java sources, line by line.  A line is described by what the
\* scanner's patterns find in it:
\*   opens/closes  line.count('{'), line.count('}')
\*   imp           import_pattern's group 1 (NoStr: no match)
\*   cls/ext/impls class_pattern's groups 1..3 (cls = NoStr: no match)
\*   iface         'interface' in line
\*   meth          method_pattern's group 1 (NoStr: no match)
\*   kw            one of 'if','for','while','switch','catch' occurs in line
\*   news          new_pattern's matches
\*   calls         method_call_pattern's matches <<object, method>>
\*   statics       static_call_pattern's matches <<class, method>>
\*   undecodable   the line holds bytes that are not UTF-8: f.read() raises
Blank ==
    [opens |-> 0, closes |-> 0, imp |-> NoStr, cls |-> NoStr, ext |-> NoStr,
     impls |-> <<>>, iface |-> FALSE, meth |-> NoStr, kw |-> FALSE,
     news |-> <<>>, calls |-> <<>>, statics |-> <<>>, undecodable |-> FALSE]

ImportLine(name) == [Blank EXCEPT !.imp = name]
ClassLine(name, ext, impls) ==
    [Blank EXCEPT !.cls = name, !.ext = ext, !.impls = impls, !.opens = 1]
InterfaceLine(name) == [Blank EXCEPT !.cls = name, !.iface = TRUE, !.opens = 1]
MethodLine(name) == [Blank EXCEPT !.meth = name, !.opens = 1]
CloseLine == [Blank EXCEPT !.closes = 1]
UndecodableLine == [Blank EXCEPT !.undecodable = TRUE]
BodyLine(news, calls, statics) ==
    [Blank EXCEPT !.news = news, !.calls = calls, !.statics = statics]

\*  1 import java.util.List;
\*  2 public class Foo {
\*  3     public void bar() {
\*  4         helper.run();
\*  5     }
\*  6     public void baz() {
\*  7         Foo.bar();
\*  8     }
\*  9 }
JavaFoo ==
    << ImportLine("java.util.List"),
       ClassLine("Foo", NoStr, <<>>),
       MethodLine("bar"),
       BodyLine(<<>>, << <<"helper", "run">> >>, <<>>),
       CloseLine,
       MethodLine("baz"),
       BodyLine(<<>>, << <<"Foo", "bar">> >>, << <<"Foo", "bar">> >>),
       CloseLine,
       CloseLine >>

\*  1 public class Main extends Base implements Runner {
\*  2     public void run() {
\*  3         Foo f = new Foo();
\*  4         myFoo.bar();
\*  5         Base.bar();
\*  6     }
\*  7 }
JavaMain ==
    << ClassLine("Main", "Base", <<"Runner">>),
       MethodLine("run"),
       BodyLine(<<"Foo">>, <<>>, <<>>),
       BodyLine(<<>>, << <<"myFoo", "bar">> >>, << <<"Foo", "bar">> >>),
       BodyLine(<<>>, << <<"Base", "bar">> >>, << <<"Base", "bar">> >>),
       CloseLine,
       CloseLine >>

\*  1 public class Base {
\*  2     public void bar() {
\*  3     }
\*  4 }
\*  5 interface Runner {
\*  6     void run();
\*  7 }
JavaBase ==
    << ClassLine("Base", NoStr, <<>>),
       MethodLine("bar"),
       CloseLine,
       CloseLine,
       InterfaceLine("Runner"),
       Blank,
       CloseLine >>

\*  1 public class Outer {
\*  2     class Inner {
\*  3         void inner() {
\*  4         }
\*  5     }
\*  6     void after() {
\*  7         Inner.inner();
\*  8     }
\*  9 }
JavaNested ==
    << ClassLine("Outer", NoStr, <<>>),
       ClassLine("Inner", NoStr, <<>>),
       MethodLine("inner"),
       CloseLine,
       CloseLine,
       MethodLine("after"),
       BodyLine(<<>>, << <<"Inner", "inner">> >>, << <<"Inner", "inner">> >>),
       CloseLine,
       CloseLine >>

\*  1 public class Foo {
\*  2     // <bytes 0xC3 0x28, not UTF-8>
\*  3 }
JavaBinary ==
    << ClassLine("Foo", NoStr, <<>>),
       UndecodableLine,
       CloseLine >>

JavaSources == <<JavaFoo, JavaMain, JavaBase, JavaNested, JavaBinary>>

\* ---- Python sources: the module's top-level statements in ast.walk order.
\* A call is <<call_type, name, object>> as CallVisitor._extract_call_info
\* returns it (object NoStr: None), in the order visit_Call records them.
\* A def is deep when its body nests expressions beyond the interpreter's
\* recursion limit, so that CallVisitor.visit raises RecursionError in it; a
\* "syntax_error" statement is text ast.parse rejects.
PyImport(line, module) == [kind |-> "import", line |-> line, name |-> module]
PyDef(line, name, calls) ==
    [kind |-> "def", line |-> line, name |-> name, calls |-> calls, deep |-> FALSE]
PyDeepDef(line, name) == [PyDef(line, name, <<>>) EXCEPT !.deep = TRUE]
PySyntaxError(line) == [kind |-> "syntax_error", line |-> line, name |-> NoStr]
PyClass(line, name, methods) ==
    [kind |-> "class", line |-> line, name |-> name, methods |-> methods]

\*  1 import os
\*  2 class Foo:
\*  3     def bar(self):
\*  4         helper()
\*  5         Foo.baz()
\*  6 def helper():
\*  7     ext.do()
\*  8     Foo()
\*  9     Foo.bar()
PyFoo ==
    << PyImport(1, "os"),
       PyClass(2, "Foo", << PyDef(3, "bar", << <<"function", "helper", NoStr>>,
                                                <<"method", "baz", "Foo">> >>) >>),
       PyDef(6, "helper", << <<"method", "do", "ext">>,
                             <<"function", "Foo", NoStr>>,
                             <<"method", "bar", "Foo">> >>) >>

\*  1 from lib import x
\*  2 def a():
\*  3     b()
\*  4     Foo()
\*  5     Foo.bar()
\*  6     unknown()
\*  7     get().run()
\*  8 def b():
\*  9     pass
PyMain ==
    << PyImport(1, "lib"),
       PyDef(2, "a", << <<"function", "b", NoStr>>,
                        <<"function", "Foo", NoStr>>,
                        <<"method", "bar", "Foo">>,
                        <<"function", "unknown", NoStr>>,
                        <<"method", "run", NoStr>>,
                        <<"function", "get", NoStr>> >>),
       PyDef(8, "b", <<>>) >>

\*  1 def Foo():
\*  2     helper()
\*  3 def helper():
\*  4     pass
\*  5 import os; import sys
PyDup ==
    << PyDef(1, "Foo", << <<"function", "helper", NoStr>> >>),
       PyDef(3, "helper", <<>>),
       PyImport(5, "os"),
       PyImport(5, "sys") >>

\*  1 import os
\*  2 def ok():
\*  3     helper()
\*  4 def deep():
\*  5     x.f().f().f() ... .f()      (a chain of 500 calls)
\*  6 def never():
\*  7     pass
PyDeep ==
    << PyImport(1, "os"),
       PyDef(2, "ok", << <<"function", "helper", NoStr>> >>),
       PyDeepDef(4, "deep"),
       PyDef(6, "never", <<>>) >>

\*  1 def ok():
\*  2     pass
\*  3 def broken(:
PyBroken ==
    << PyDef(1, "ok", <<>>),
       PySyntaxError(3) >>

PythonSources == <<PyFoo, PyMain, PyDup, PyDeep, PyBroken>>

\* Number of distinct contents a file of the language may have.
NumSources(lang) ==
    CASE lang = "java" -> Len(JavaSources)
      [] lang = "python" -> Len(PythonSources)
      [] OTHER -> 1

-----------------------------------------------------------------------------
(* JavaParser.parse_file *)

RECURSIVE JavaImports(_, _, _, _)
\* The first loop over the lines: one Import node and one contains edge per
\* line import_pattern matches.
JavaImports(lines, i, file_id, out) ==
    IF i > Len(lines) THEN out
    ELSE IF lines[i].imp = NoStr THEN JavaImports(lines, i + 1, file_id, out)
    ELSE LET import_id == <<file_id[1], "import", i>>
             n == CodeNode(import_id, lines[i].imp, IMPORT, i, file_id)
         IN  JavaImports(lines, i + 1, file_id,
                 [nodes |-> DictSet(out.nodes, n),
                  edges |-> Append(out.edges, CodeEdge(file_id, import_id, "contains", NoMeta))])

JavaKeywords == {"if", "for", "while", "switch", "catch", "return"}

RECURSIVE ConstructorEdges(_, _)
ConstructorEdges(src, news) ==
    IF news = <<>> THEN <<>>
    ELSE <<CodeEdge(src, Unresolved(Head(news)), "instantiates",
                    [call_type |-> "constructor"])>>
         \o ConstructorEdges(src, Tail(news))

RECURSIVE MethodCallEdges(_, _)
MethodCallEdges(src, calls) ==
    IF calls = <<>> THEN <<>>
    ELSE (IF Head(calls)[1] \notin JavaKeywords
          THEN <<CodeEdge(src, Unresolved(Head(calls)[2]), "calls",
                          [call_type |-> "method", object |-> Head(calls)[1]])>>
          ELSE <<>>)
         \o MethodCallEdges(src, Tail(calls))

RECURSIVE StaticCallEdges(_, _)
StaticCallEdges(src, statics) ==
    IF statics = <<>> THEN <<>>
    ELSE <<CodeEdge(src, Unresolved(Head(statics)[2]), "calls",
                    [call_type |-> "static", class |-> Head(statics)[1]])>>
         \o StaticCallEdges(src, Tail(statics))

RECURSIVE ImplementsEdges(_, _)
ImplementsEdges(src, impls) ==
    IF impls = <<>> THEN <<>>
    ELSE <<CodeEdge(src, Unresolved(Head(impls)), "implements", NoMeta)>>
         \o ImplementsEdges(src, Tail(impls))

\* One iteration of the scanning loop on line i (1-based, as the ids number it).
JavaLine(line, i, file_id, s0) ==
    LET delta == line.opens - line.closes
        \* brace counting; the body of the method the scanner is in
        s1 == [s0 EXCEPT !.brace_count = @ + delta]
        s2 == IF ~s1.in_method THEN s1
              ELSE LET mbc == s1.method_brace_count + delta
                       body == IF s1.current_method_id # NoId
                               THEN ConstructorEdges(s1.current_method_id, line.news)
                                    \o MethodCallEdges(s1.current_method_id, line.calls)
                                    \o StaticCallEdges(s1.current_method_id, line.statics)
                               ELSE <<>>
                       s == [s1 EXCEPT !.method_brace_count = mbc,
                                       !.edges = @ \o body]
                   IN  IF mbc = 0
                       THEN [s EXCEPT !.in_method = FALSE, !.current_method_id = NoId]
                       ELSE s
        \* class / interface declaration
        s3 == IF line.cls = NoStr THEN s2
              ELSE LET class_id == <<file_id[1], line.cls, i>>
                       class_type == IF line.iface THEN INTERFACE ELSE CLASS
                       n == CodeNode(class_id, line.cls, class_type, i, file_id)
                   IN  [s2 EXCEPT
                          !.nodes = DictSet(@, n),
                          !.edges = @ \o <<CodeEdge(file_id, class_id, "contains", NoMeta)>>
                                      \o (IF line.ext # NoStr
                                          THEN <<CodeEdge(class_id, Unresolved(line.ext),
                                                          "inherits", NoMeta)>>
                                          ELSE <<>>)
                                      \o ImplementsEdges(class_id, line.impls),
                          !.current_class_id = class_id,
                          !.in_class = TRUE]
        \* method declaration
        s4 == IF s3.in_class /\ s3.current_class_id # NoId /\ ~s3.in_method
                 /\ line.meth # NoStr /\ ~line.kw
                 /\ line.meth \notin {"if", "for", "while", "switch", "new"}
              THEN LET method_id == s3.current_class_id \o <<line.meth, i>>
                       n == CodeNode(method_id, line.meth, METHOD, i, s3.current_class_id)
                   IN  [s3 EXCEPT
                          !.nodes = DictSet(@, n),
                          !.edges = Append(@, CodeEdge(s3.current_class_id, method_id,
                                                       "contains", NoMeta)),
                          !.current_method_id = method_id,
                          !.in_method = TRUE,
                          !.method_brace_count = delta]
              ELSE s3
    IN  \* leaving the class scope
        IF s4.in_class /\ s4.brace_count = 0
        THEN [s4 EXCEPT !.in_class = FALSE, !.current_class_id = NoId]
        ELSE s4

RECURSIVE JavaScan(_, _, _, _)
JavaScan(lines, i, file_id, s) ==
    IF i > Len(lines) THEN s
    ELSE JavaScan(lines, i + 1, file_id, JavaLine(lines[i], i, file_id, s))

\* JavaParser.parse_file(file_path, file_id) -> (nodes, edges)
\* f.read() raises before anything is recorded when the file does not decode;
\* the except clause reports it and the empty nodes and edges are returned.
JavaParse(lines, file_id) ==
    LET imports == JavaImports(lines, 1, file_id, [nodes |-> <<>>, edges |-> <<>>])
        s == JavaScan(lines, 1, file_id,
                 [brace_count |-> 0, in_class |-> FALSE, current_class_id |-> NoId,
                  in_method |-> FALSE, method_brace_count |-> 0,
                  current_method_id |-> NoId,
                  nodes |-> imports.nodes, edges |-> imports.edges])
    IN  IF \E i \in 1..Len(lines) : lines[i].undecodable
        THEN [nodes |-> <<>>, edges |-> <<>>]
        ELSE [nodes |-> s.nodes, edges |-> s.edges]

-----------------------------------------------------------------------------
(* PythonParser.parse_file *)

RECURSIVE CallEdges(_, _)
\* One "calls" edge per call the visitor recorded in the scope src.
CallEdges(src, calls) ==
    IF calls = <<>> THEN <<>>
    ELSE <<CodeEdge(src, Unresolved(Head(calls)[2]), "calls",
                    [call_type |-> Head(calls)[1], object |-> Head(calls)[3]])>>
         \o CallEdges(src, Tail(calls))

RECURSIVE PyMethods(_, _, _, _)
\* The methods of a class body (the FunctionDef items of node.body).  The
\* node and its contains edge are recorded before visitor.visit(item) runs:
\* when that raises, they stay and the loop is left (out.raised).
PyMethods(methods, class_id, file_id, out) ==
    IF methods = <<>> \/ out.raised THEN out
    ELSE LET item == Head(methods)
             method_id == class_id \o <<item.name, item.line>>
             n == CodeNode(method_id, item.name, METHOD, item.line, class_id)
             contains == Append(out.edges, CodeEdge(class_id, method_id, "contains", NoMeta))
         IN  PyMethods(Tail(methods), class_id, file_id,
                 [nodes |-> DictSet(out.nodes, n),
                  edges |-> IF item.deep THEN contains
                            ELSE contains \o CallEdges(method_id, item.calls),
                  raised |-> item.deep])

\* One statement of the second ast.walk pass.
PyStatement(stmt, file_id, out) ==
    CASE stmt.kind = "class" ->
           LET class_id == <<file_id[1], stmt.name, stmt.line>>
               n == CodeNode(class_id, stmt.name, CLASS, stmt.line, file_id)
           IN  PyMethods(stmt.methods, class_id, file_id,
                   [nodes |-> DictSet(out.nodes, n),
                    edges |-> Append(out.edges, CodeEdge(file_id, class_id, "contains", NoMeta)),
                    raised |-> FALSE])
      [] stmt.kind = "def" ->
           LET func_id == <<file_id[1], stmt.name, stmt.line>>
               n == CodeNode(func_id, stmt.name, FUNCTION, stmt.line, file_id)
               contains == Append(out.edges, CodeEdge(file_id, func_id, "contains", NoMeta))
           IN  [nodes |-> DictSet(out.nodes, n),
                edges |-> IF stmt.deep THEN contains
                          ELSE contains \o CallEdges(func_id, stmt.calls),
                raised |-> stmt.deep]
      [] stmt.kind = "import" ->
           LET import_id == <<file_id[1], "import", stmt.line>>
               n == CodeNode(import_id, stmt.name, IMPORT, stmt.line, file_id)
           IN  [nodes |-> DictSet(out.nodes, n),
                edges |-> Append(out.edges, CodeEdge(file_id, import_id, "contains", NoMeta)),
                raised |-> FALSE]

RECURSIVE PyWalk(_, _, _)
\* The second ast.walk loop, left at the first statement that raises.
PyWalk(stmts, file_id, out) ==
    IF stmts = <<>> \/ out.raised THEN out
    ELSE PyWalk(Tail(stmts), file_id, PyStatement(Head(stmts), file_id, out))

\* PythonParser.parse_file(file_path, file_id) -> (nodes, edges).  ast.parse
\* raises on text that is no Python before anything is recorded; an exception
\* inside the second loop leaves what was recorded so far.  Either way the
\* except clause reports it and nodes and edges are returned.
PythonParse(stmts, file_id) ==
    IF \E i \in 1..Len(stmts) : stmts[i].kind = "syntax_error"
    THEN [nodes |-> <<>>, edges |-> <<>>]
    ELSE LET out == PyWalk(stmts, file_id,
                        [nodes |-> <<>>, edges |-> <<>>, raised |-> FALSE])
         IN  [nodes |-> out.nodes, edges |-> out.edges]

-----------------------------------------------------------------------------
(* MultiLanguageCodeGraphBuilder._resolve_cross_file_references *)

\* Mutant of LookupSet: an entry already present is kept (setdefault).
LookupSetIfAbsent(table, key, node_id) ==
    IF key \in DOMAIN table THEN table ELSE (key :> node_id) @@ table

\* table[key] = node_id
LookupSet(table, key, node_id) == (key :> node_id) @@ table

EmptyLookups ==
    [function_lookup |-> NoMeta, class_lookup |-> NoMeta, method_lookup |-> NoMeta]

\* The body of the loop that builds the lookup tables, for one node.
LookupStep(all, node, t) ==
    IF node.type = FUNCTION
    THEN [t EXCEPT !.function_lookup = LookupSet(@, node.name, node.id)]
    ELSE IF node.type = CLASS
    THEN [t EXCEPT !.class_lookup = LookupSet(@, node.name, node.id)]
    ELSE IF node.type = METHOD /\ node.parent_id # NoId
    THEN LET parent == NodeGet(all, node.parent_id)
         IN  IF parent # NoNode /\ parent.type = CLASS
             THEN [t EXCEPT !.method_lookup =
                              LookupSet(@, <<parent.name, node.name>>, node.id)]
             ELSE t
    ELSE t

RECURSIVE BuildLookups(_, _, _)
\* function_lookup, class_lookup and method_lookup over self.nodes.items()
BuildLookups(all, i, t) ==
    IF i > Len(all) THEN t
    ELSE BuildLookups(all, i + 1, LookupStep(all, all[i], t))

\* Mutant of ResolveTarget: the class table is consulted before the function
\* table.
ResolveTargetClassFirst(edge, t) ==
    LET target_name == TargetName(edge.target)
        call_type == Get(edge.metadata, "call_type", "function")
        obj_name == Get(edge.metadata, "object", NoStr)
    IN  IF call_type = "function"
        THEN IF target_name \in DOMAIN t.class_lookup
             THEN [target |-> t.class_lookup[target_name], type |-> "instantiates"]
             ELSE IF target_name \in DOMAIN t.function_lookup
             THEN [target |-> t.function_lookup[target_name], type |-> edge.type]
             ELSE [target |-> NoId, type |-> edge.type]
        ELSE IF call_type = "method" /\ obj_name # NoStr
        THEN IF obj_name \in DOMAIN t.class_lookup
                /\ <<obj_name, target_name>> \in DOMAIN t.method_lookup
             THEN [target |-> t.method_lookup[<<obj_name, target_name>>],
                   type |-> edge.type]
             ELSE [target |-> NoId, type |-> edge.type]
        ELSE [target |-> NoId, type |-> edge.type]

\* Mutant of ResolveTarget: a method call resolves to any method of that
\* name, whatever the receiver.
ResolveTargetAnyReceiver(edge, t) ==
    LET target_name == TargetName(edge.target)
        call_type == Get(edge.metadata, "call_type", "function")
        obj_name == Get(edge.metadata, "object", NoStr)
        named == {k \in DOMAIN t.method_lookup : k[2] = target_name}
    IN  IF call_type = "function"
        THEN IF target_name \in DOMAIN t.function_lookup
             THEN [target |-> t.function_lookup[target_name], type |-> edge.type]
             ELSE IF target_name \in DOMAIN t.class_lookup
             THEN [target |-> t.class_lookup[target_name], type |-> "instantiates"]
             ELSE [target |-> NoId, type |-> edge.type]
        ELSE IF call_type = "method" /\ obj_name # NoStr
        THEN IF named # {}
             THEN [target |-> t.method_lookup[CHOOSE k \in named : TRUE],
                   type |-> edge.type]
             ELSE [target |-> NoId, type |-> edge.type]
        ELSE [target |-> NoId, type |-> edge.type]

\* The call types the resolver dispatches on: what resolves the edge, as
\* [target, type] (target NoId: resolved_target stays None).
ResolveTarget(edge, t) ==
    LET target_name == TargetName(edge.target)
        call_type == Get(edge.metadata, "call_type", "function")
        obj_name == Get(edge.metadata, "object", NoStr)
    IN  IF call_type = "function"
        THEN IF target_name \in DOMAIN t.function_lookup
             THEN [target |-> t.function_lookup[target_name], type |-> edge.type]
             ELSE IF target_name \in DOMAIN t.class_lookup
             THEN [target |-> t.class_lookup[target_name], type |-> "instantiates"]
             ELSE [target |-> NoId, type |-> edge.type]
        ELSE IF call_type = "method" /\ obj_name # NoStr
        THEN IF obj_name \in DOMAIN t.class_lookup
                /\ <<obj_name, target_name>> \in DOMAIN t.method_lookup
             THEN [target |-> t.method_lookup[<<obj_name, target_name>>],
                   type |-> edge.type]
             ELSE [target |-> NoId, type |-> edge.type]
        ELSE [target |-> NoId, type |-> edge.type]

\* Mutant of ResolveStep: an edge that does not resolve is kept as it is.
ResolveStepKeepUnresolved(edge, t, acc) ==
    IF IsUnresolved(edge.target)
    THEN LET r == ResolveTarget(edge, t)
         IN  IF r.target # NoId
             THEN [acc EXCEPT
                     !.resolved_edges =
                         Append(@, CodeEdge(edge.source, r.target, r.type, edge.metadata)),
                     !.resolved_count = @ + 1]
             ELSE [acc EXCEPT !.resolved_edges = Append(@, edge),
                              !.unresolved_count = @ + 1]
    ELSE [acc EXCEPT !.resolved_edges = Append(@, edge)]

\* Mutant of ResolveStep: a dropped edge is not counted.
ResolveStepUncounted(edge, t, acc) ==
    IF IsUnresolved(edge.target)
    THEN LET r == ResolveTarget(edge, t)
         IN  IF r.target # NoId
             THEN [acc EXCEPT
                     !.resolved_edges =
                         Append(@, CodeEdge(edge.source, r.target, r.type, edge.metadata)),
                     !.resolved_count = @ + 1]
             ELSE acc
    ELSE [acc EXCEPT !.resolved_edges = Append(@, edge)]

\* Mutant of ResolveStep: a resolved edge keeps its placeholder target.
ResolveStepKeepTarget(edge, t, acc) ==
    IF IsUnresolved(edge.target)
    THEN LET r == ResolveTarget(edge, t)
         IN  IF r.target # NoId
             THEN [acc EXCEPT
                     !.resolved_edges =
                         Append(@, CodeEdge(edge.source, edge.target, r.type, edge.metadata)),
                     !.resolved_count = @ + 1]
             ELSE [acc EXCEPT !.unresolved_count = @ + 1]
    ELSE [acc EXCEPT !.resolved_edges = Append(@, edge)]

\* The body of the loop over self.edges, for one edge.
ResolveStep(edge, t, acc) ==
    IF IsUnresolved(edge.target)
    THEN LET r == ResolveTarget(edge, t)
         IN  IF r.target # NoId
             THEN [acc EXCEPT
                     !.resolved_edges =
                         Append(@, CodeEdge(edge.source, r.target, r.type, edge.metadata)),
                     !.resolved_count = @ + 1]
             ELSE [acc EXCEPT !.unresolved_count = @ + 1]
    ELSE [acc EXCEPT !.resolved_edges = Append(@, edge)]

RECURSIVE ResolveLoop(_, _, _, _)
ResolveLoop(es, i, t, acc) ==
    IF i > Len(es) THEN acc
    ELSE ResolveLoop(es, i + 1, t, ResolveStep(es[i], t, acc))

\* One pass of the resolver over (all, es):
\* [resolved_edges, resolved_count, unresolved_count]
ResolveReferences(all, es) ==
    ResolveLoop(es, 1, BuildLookups(all, 1, EmptyLookups),
                [resolved_edges |-> <<>>, resolved_count |-> 0, unresolved_count |-> 0])

-----------------------------------------------------------------------------
(* MultiLanguageCodeGraphBuilder._process_file, _construct_graph *)

\* The parser's (nodes, edges) for the file at path p.
ParseFile(lang, content, file_id) ==
    CASE lang = "java" -> JavaParse(JavaSources[content], file_id)
      [] lang = "python" -> PythonParse(PythonSources[content], file_id)

\* Mutant of ProcessedFile: the file's nodes replace self.nodes instead of
\* being merged into it.
ProcessedFileReplacing(lang, content, file_id, all, es) ==
    LET file_node == CodeNode(file_id, file_id[1], FILE, 0, NoId)
    IN  IF lang \in {"java", "python"}
        THEN LET parsed == ParseFile(lang, content, file_id)
             IN  [nodes |-> DictUpdate(<<file_node>>, parsed.nodes),
                  edges |-> es \o parsed.edges]
        ELSE [nodes |-> <<file_node>>, edges |-> es]

\* Mutant of ProcessedFile: the File node names itself as its parent.
ProcessedFileSelfParent(lang, content, file_id, all, es) ==
    LET file_node == CodeNode(file_id, file_id[1], FILE, 0, file_id)
        withFile == DictSet(all, file_node)
    IN  IF lang \in {"java", "python"}
        THEN LET parsed == ParseFile(lang, content, file_id)
             IN  [nodes |-> DictUpdate(withFile, parsed.nodes),
                  edges |-> es \o parsed.edges]
        ELSE [nodes |-> withFile, edges |-> es]

\* self.nodes and self.edges after _process_file(file_path)
ProcessedFile(lang, content, file_id, all, es) ==
    LET file_node == CodeNode(file_id, file_id[1], FILE, 0, NoId)
        withFile == DictSet(all, file_node)
    IN  IF lang \in {"java", "python"}
        THEN LET parsed == ParseFile(lang, content, file_id)
             IN  [nodes |-> DictUpdate(withFile, parsed.nodes),
                  edges |-> es \o parsed.edges]
        ELSE [nodes |-> withFile, edges |-> es]

EmptyGraph == [nodes |-> {}, edges |-> NoMeta]

RECURSIVE AddEdges(_, _, _, _)
\* graph.add_edge for every edge with both ends in self.nodes
AddEdges(all, es, i, g) ==
    IF i > Len(es) THEN g
    ELSE AddEdges(all, es, i + 1,
             IF es[i].source \in Ids(all) /\ es[i].target \in Ids(all)
             THEN (<<es[i].source, es[i].target>> :> es[i].type) @@ g
             ELSE g)

\* self.graph after _construct_graph
ConstructedGraph(all, es) ==
    [nodes |-> Ids(all), edges |-> AddEdges(all, es, 1, NoMeta)]

-----------------------------------------------------------------------------
(* HierarchicalLayout *)

LeafWidth == 150
LeafHeight == 100
SiblingGap == 50
FilePadding == 100
FileMinWidth == 300
FileHeightPadding == 200
ClassPadding == 80
ClassMinWidth == 250
ClassHeightPadding == 150
OtherMinWidth == 150
OtherHeightPadding == 100
LayerStep == 150
RootGap == 100

Max(a, b) == IF a >= b THEN a ELSE b

\* Every string an id holds, in the order str compares them.
StrOrder ==
    <<"Base", "Foo", "Inner", "Main", "Outer", "Runner", "a", "a.src", "after",
      "b", "b.src", "bar", "baz", "c.src", "d.src", "deep", "e.src", "helper",
      "import", "inner", "never", "ok", "run">>
StrRank(str) == CHOOSE i \in 1..Len(StrOrder) : StrOrder[i] = str

\* Ids compare as their strings do: component by component, a proper prefix
\* first.  Components 3 and 5 are line numbers (below 10, compared by value),
\* the others are names and paths (ranked by StrOrder).
IdKey(id, k) == IF k \in {3, 5} THEN id[k] ELSE StrRank(id[k])

RECURSIVE IdLessFrom(_, _, _)
IdLessFrom(a, b, k) ==
    IF k > Len(a) THEN k <= Len(b)
    ELSE IF k > Len(b) THEN FALSE
    ELSE IF IdKey(a, k) = IdKey(b, k) THEN IdLessFrom(a, b, k + 1)
    ELSE IdKey(a, k) < IdKey(b, k)

IdLess(a, b) == IdLessFrom(a, b, 1)

RECURSIVE Sorted(_)
\* sorted(ids) for a list of distinct ids
Sorted(ids) ==
    IF ids = <<>> THEN <<>>
    ELSE LET m == CHOOSE i \in 1..Len(ids) :
                      \A j \in 1..Len(ids) : j = i \/ IdLess(ids[i], ids[j])
         IN  <<ids[m]>> \o Sorted([k \in 1..(Len(ids) - 1) |->
                                      IF k < m THEN ids[k] ELSE ids[k + 1]])

RECURSIVE BuildTreeNoPromotion(_, _, _)
\* Mutant of BuildTree: a node is a root only if it has no parent_id.
BuildTreeNoPromotion(all, i, acc) ==
    IF i > Len(all) THEN acc
    ELSE LET node == all[i]
         IN  BuildTreeNoPromotion(all, i + 1,
                 IF node.parent_id # NoId
                 THEN [acc EXCEPT !.children =
                          (node.parent_id :> Append(Get(@, node.parent_id, <<>>), node.id)) @@ @]
                 ELSE [acc EXCEPT !.roots = Append(@, node.id)])

RECURSIVE BuildTreePrepend(_, _, _)
\* Mutant of BuildTree: a child is put in front of its siblings.
BuildTreePrepend(all, i, acc) ==
    IF i > Len(all) THEN acc
    ELSE LET node == all[i]
         IN  BuildTreePrepend(all, i + 1,
                 IF node.parent_id # NoId /\ node.parent_id \in Ids(all)
                 THEN [acc EXCEPT !.children =
                          (node.parent_id :> (<<node.id>> \o Get(@, node.parent_id, <<>>))) @@ @]
                 ELSE [acc EXCEPT !.roots = Append(@, node.id)])

RECURSIVE BuildTree(_, _, _)
\* The parent-child relationships: children (parent id -> child ids, in
\* self.nodes order; a defaultdict) and roots.
BuildTree(all, i, acc) ==
    IF i > Len(all) THEN acc
    ELSE LET node == all[i]
         IN  BuildTree(all, i + 1,
                 IF node.parent_id # NoId /\ node.parent_id \in Ids(all)
                 THEN [acc EXCEPT !.children =
                          (node.parent_id :> Append(Get(@, node.parent_id, <<>>), node.id)) @@ @]
                 ELSE [acc EXCEPT !.roots = Append(@, node.id)])

ContainmentTree(all) == BuildTree(all, 1, [children |-> NoMeta, roots |-> <<>>])

RECURSIVE SubtreeSizes(_, _, _)
RECURSIVE ChildSizes(_, _, _, _)

\* The entries _calculate_subtree_size(kids[1..]) write to node_sizes.
ChildSizes(all, children, kids, sizes) ==
    IF kids = <<>> THEN sizes
    ELSE ChildSizes(all, children, Tail(kids),
                    SubtreeSizes(all, children, Head(kids)) @@ sizes)

RECURSIVE SumWidths(_, _)
SumWidths(kids, sizes) ==
    IF kids = <<>> THEN 0 ELSE sizes[Head(kids)][1] + SumWidths(Tail(kids), sizes)

RECURSIVE MaxHeight(_, _)
MaxHeight(kids, sizes) ==
    IF kids = <<>> THEN 0 ELSE Max(sizes[Head(kids)][2], MaxHeight(Tail(kids), sizes))

\* Mutant of NodeSize: a node over children is given the box of a leaf.
NodeSizeOfLeaf(type, total_width, max_height) == <<LeafWidth, LeafHeight>>

\* Mutant of NodeSize: the kind of the node is not looked at.
NodeSizeAnyKind(type, total_width, max_height) ==
    <<Max(total_width, OtherMinWidth), max_height + OtherHeightPadding>>

\* A node's own size from its children's.
NodeSize(type, total_width, max_height) ==
    IF type = FILE
    THEN <<Max(total_width + FilePadding, FileMinWidth), max_height + FileHeightPadding>>
    ELSE IF type = CLASS
    THEN <<Max(total_width + ClassPadding, ClassMinWidth), max_height + ClassHeightPadding>>
    ELSE <<Max(total_width, OtherMinWidth), max_height + OtherHeightPadding>>

\* _calculate_subtree_size(node_id, children): the node_sizes entries of the
\* subtree; the call returns the entry of node_id.
SubtreeSizes(all, children, node_id) ==
    LET kids == Get(children, node_id, <<>>)
    IN  IF kids = <<>> THEN (node_id :> <<LeafWidth, LeafHeight>>)
        ELSE LET sizes == ChildSizes(all, children, kids, NoMeta)
                 total_width == SumWidths(kids, sizes) + SiblingGap * (Len(kids) - 1)
                 max_height == MaxHeight(kids, sizes)
             IN  (node_id :> NodeSize(NodeGet(all, node_id).type, total_width, max_height))
                 @@ sizes

RECURSIVE PositionSubtree(_, _, _, _, _)
RECURSIVE PositionChildren(_, _, _, _, _, _)

\* The loop over children[node_id] of _position_subtree.  Every width is a
\* multiple of 10, so the halves are exact.
PositionChildren(children, sizes, kids, current_x, child_y, pos) ==
    IF kids = <<>> THEN pos
    ELSE LET child_width == sizes[Head(kids)][1]
             child_x == current_x + child_width \div 2
         IN  PositionChildren(children, sizes, Tail(kids),
                 current_x + child_width + SiblingGap, child_y,
                 PositionSubtree(children, sizes, Head(kids), child_x, child_y) @@ pos)

\* Mutant of PositionSubtree: the children stay on their parent's layer.
PositionSubtreeSameLayer(children, sizes, node_id, x, y) ==
    LET kids == Get(children, node_id, <<>>)
        here == (node_id :> <<x, y>>)
    IN  IF kids = <<>> THEN here
        ELSE LET total_children_width ==
                     SumWidths(kids, sizes) + SiblingGap * (Len(kids) - 1)
             IN  PositionChildren(children, sizes, kids,
                     x - total_children_width \div 2, y, here)

\* Mutant of PositionSubtree: the row of children starts at the parent's x.
PositionSubtreeFromCenter(children, sizes, node_id, x, y) ==
    LET kids == Get(children, node_id, <<>>)
        here == (node_id :> <<x, y>>)
    IN  IF kids = <<>> THEN here
        ELSE PositionChildren(children, sizes, kids, x, y + LayerStep, here)

\* _position_subtree(node_id, children, x, y): the positions entries written.
PositionSubtree(children, sizes, node_id, x, y) ==
    LET kids == Get(children, node_id, <<>>)
        here == (node_id :> <<x, y>>)
    IN  IF kids = <<>> THEN here
        ELSE LET total_children_width ==
                     SumWidths(kids, sizes) + SiblingGap * (Len(kids) - 1)
             IN  PositionChildren(children, sizes, kids,
                     x - total_children_width \div 2, y + LayerStep, here)

\* Mutant of PlaceRoots: the loop is left after the first root.
PlaceRootsFirstOnly(all, children, roots, current_x, acc) ==
    IF roots = <<>> THEN acc
    ELSE LET sizes == SubtreeSizes(all, children, Head(roots)) @@ acc.node_sizes
             subtree_width == sizes[Head(roots)][1]
             pos == PositionSubtree(children, sizes, Head(roots),
                                    current_x + subtree_width \div 2, 0)
         IN  [positions |-> pos @@ acc.positions, node_sizes |-> sizes]

RECURSIVE PlaceRootsNoGap(_, _, _, _, _)
\* Mutant of PlaceRoots: no gap is left between two roots' subtrees.
PlaceRootsNoGap(all, children, roots, current_x, acc) ==
    IF roots = <<>> THEN acc
    ELSE LET sizes == SubtreeSizes(all, children, Head(roots)) @@ acc.node_sizes
             subtree_width == sizes[Head(roots)][1]
             pos == PositionSubtree(children, sizes, Head(roots),
                                    current_x + subtree_width \div 2, 0)
         IN  PlaceRootsNoGap(all, children, Tail(roots), current_x + subtree_width,
                 [positions |-> pos @@ acc.positions, node_sizes |-> sizes])

RECURSIVE PlaceRoots(_, _, _, _, _)
\* The loop over sorted(roots) of calculate_positions.
PlaceRoots(all, children, roots, current_x, acc) ==
    IF roots = <<>> THEN acc
    ELSE LET sizes == SubtreeSizes(all, children, Head(roots)) @@ acc.node_sizes
             subtree_width == sizes[Head(roots)][1]
             pos == PositionSubtree(children, sizes, Head(roots),
                                    current_x + subtree_width \div 2, 0)
         IN  PlaceRoots(all, children, Tail(roots), current_x + subtree_width + RootGap,
                 [positions |-> pos @@ acc.positions, node_sizes |-> sizes])

\* HierarchicalLayout(nodes, edges).calculate_positions():
\* [positions, node_sizes]
CalculatePositions(all) ==
    LET tree == ContainmentTree(all)
    IN  PlaceRoots(all, tree.children, Sorted(tree.roots), 0,
                   [positions |-> NoMeta, node_sizes |-> NoMeta])

-----------------------------------------------------------------------------
(* The circle-packing layout: the second consumer of the containment tree.  *)
(* Modelled from section 4.4 of the specification.                          *)

\* A leaf's radius by kind.
LeafRadius(type) ==
    CASE type = FILE -> 40
      [] type = CLASS -> 25
      [] type \in {METHOD, FUNCTION} -> 15
      [] OTHER -> 10

\* The least radius of a node with several children, by kind.
KindMinimum(type) ==
    CASE type = FILE -> 80
      [] type = CLASS -> 50
      [] OTHER -> 30

RECURSIVE SumOver(_, _)
\* The values f[kids[1]], f[kids[2]], ... added up.
SumOver(kids, f) ==
    IF kids = <<>> THEN 0 ELSE f[Head(kids)] + SumOver(Tail(kids), f)

\* The greatest radius among the nodes kids.
MaxRadius(kids, radius) ==
    CHOOSE r \in {radius[kids[j]] : j \in 1..Len(kids)} :
        \A j \in 1..Len(kids) : radius[kids[j]] <= r

\* sqrt(sum(pi * r_i^2) / pi), rounded down to a whole unit; it lies between
\* the greatest radius and the sum of the radii.
AreaRadius(kids, radius) ==
    LET squares == SumOver(kids, [id \in DOMAIN radius |-> radius[id] * radius[id]])
    IN  CHOOSE k \in MaxRadius(kids, radius)..SumOver(kids, radius) :
            k * k <= squares /\ (k + 1) * (k + 1) > squares

\* Mutant of ParentRadius: no room is added around the summed child areas.
ParentRadiusTight(type, kids, radius) ==
    IF Len(kids) = 1 THEN radius[kids[1]] + 30
    ELSE Max(AreaRadius(kids, radius), KindMinimum(type))

\* The radius of a node with children.
ParentRadius(type, kids, radius) ==
    IF Len(kids) = 1 THEN radius[kids[1]] + 30
    ELSE Max(AreaRadius(kids, radius) + MaxRadius(kids, radius) + 20, KindMinimum(type))

RECURSIVE CircleRadii(_, _, _)
RECURSIVE ChildRadii(_, _, _, _)

\* Pass 1 over the subtrees of kids.
ChildRadii(all, children, kids, radius) ==
    IF kids = <<>> THEN radius
    ELSE ChildRadii(all, children, Tail(kids),
                    CircleRadii(all, children, Head(kids)) @@ radius)

\* Pass 1 (post-order): the radii of the subtree of node_id.
CircleRadii(all, children, node_id) ==
    LET kids == Get(children, node_id, <<>>)
        type == NodeGet(all, node_id).type
    IN  IF kids = <<>> THEN (node_id :> LeafRadius(type))
        ELSE LET radius == ChildRadii(all, children, kids, NoMeta)
             IN  (node_id :> ParentRadius(type, kids, radius)) @@ radius

\* Where a circle lies: a root at x on the baseline; a child at distance
\* dist from its parent's center, at the angle step * 2 pi / steps.
RootCenter(x) == [parent |-> NoId, x |-> x, dist |-> 0, step |-> 0, steps |-> 1]
ChildCenter(parent, dist, step, steps) ==
    [parent |-> parent, x |-> 0, dist |-> dist, step |-> step, steps |-> steps]

\* The distance of several children's centers from their parent's center.
ChildDistance(parent_radius, max_child_radius) ==
    Max(parent_radius - max_child_radius - 10, max_child_radius + 20)

RECURSIVE CircleCenters(_, _, _)
RECURSIVE ChildCenters(_, _, _, _, _)

\* Pass 2 over the children kids[j..] of node_id.
ChildCenters(children, radius, node_id, j, centers) ==
    LET kids == children[node_id]
    IN  IF j > Len(kids) THEN centers
        ELSE LET c == IF Len(kids) = 1 THEN ChildCenter(node_id, 0, 0, 1)
                      ELSE ChildCenter(node_id,
                               ChildDistance(radius[node_id], MaxRadius(kids, radius)),
                               j - 1, Len(kids))
             IN  ChildCenters(children, radius, node_id, j + 1,
                     CircleCenters(children, radius, kids[j]) @@ (kids[j] :> c) @@ centers)

\* Pass 2 (pre-order): the centers of the descendants of node_id.
CircleCenters(children, radius, node_id) ==
    IF Get(children, node_id, <<>>) = <<>> THEN NoMeta
    ELSE ChildCenters(children, radius, node_id, 1, NoMeta)

RECURSIVE PackRoots(_, _, _, _, _)
\* The roots from left to right: each at its radius after a 50-unit gap.
PackRoots(all, children, roots, current_x, acc) ==
    IF roots = <<>> THEN acc
    ELSE LET radius == CircleRadii(all, children, Head(roots))
             r == radius[Head(roots)]
             centers == CircleCenters(children, radius, Head(roots))
                        @@ (Head(roots) :> RootCenter(current_x + r))
         IN  PackRoots(all, children, Tail(roots), current_x + 2 * r + 50,
                 [radius |-> radius @@ acc.radius, center |-> centers @@ acc.center])

\* The circle-packing layout of a node set: [radius, center]
CirclePacking(all) ==
    LET tree == ContainmentTree(all)
    IN  PackRoots(all, tree.children, tree.roots, 0,
                  [radius |-> NoMeta, center |-> NoMeta])

-----------------------------------------------------------------------------
(* MultiLanguageCodeGraphBuilder.export_to_json *)

RECURSIVE BuildHierarchy(_, _)
RECURSIVE HierarchyChildren(_, _, _)

\* The children list of build_hierarchy(node_id): the loop over self.nodes.
HierarchyChildren(all, node_id, i) ==
    IF i > Len(all) THEN <<>>
    ELSE (IF all[i].parent_id = node_id
          THEN <<BuildHierarchy(all, all[i].id)>> ELSE <<>>)
         \o HierarchyChildren(all, node_id, i + 1)

\* build_hierarchy(node_id)
BuildHierarchy(all, node_id) ==
    LET node == NodeGet(all, node_id)
    IN  [id |-> node_id, name |-> node.name, type |-> node.type, line |-> node.line,
         children |-> HierarchyChildren(all, node_id, 1)]

RECURSIVE HierarchyRootsAll(_, _)
\* Mutant of HierarchyRoots: every node starts a tree of the forest.
HierarchyRootsAll(all, i) ==
    IF i > Len(all) THEN <<>>
    ELSE <<BuildHierarchy(all, all[i].id)>> \o HierarchyRootsAll(all, i + 1)

RECURSIVE HierarchyRoots(_, _)
HierarchyRoots(all, i) ==
    IF i > Len(all) THEN <<>>
    ELSE (IF all[i].parent_id = NoId \/ all[i].parent_id \notin Ids(all)
          THEN <<BuildHierarchy(all, all[i].id)>> ELSE <<>>)
         \o HierarchyRoots(all, i + 1)

\* edge.target.startswith("external::")
IsExternal(target) == Len(target) = 2 /\ target[1] = "external::"

\* Mutant of ValidEdge: only the source of an edge has to be a node.
ValidEdgeBySource(all, e) == e.source \in Ids(all)

ValidEdge(all, e) == e.source \in Ids(all) /\ e.target \in Ids(all)
ExternalEdge(all, e) == ~ValidEdge(all, e) /\ IsExternal(e.target)

\* The document export_to_json writes.
ExportDocument(lang, all, es) ==
    [language |-> lang,
     hierarchical |-> HierarchyRoots(all, 1),
     nodes |-> all,
     edges |-> SelectSeq(es, LAMBDA e : ValidEdge(all, e)),
     external_dependencies |-> SelectSeq(es, LAMBDA e : ExternalEdge(all, e))]

-----------------------------------------------------------------------------
(* MultiLanguageCodeGraphBuilder.get_statistics *)

\* In place of a depth: the recursion does not return.
RecursionError == -1

RECURSIVE GetDepth(_, _, _, _)
\* get_depth(node_id, depth), entered for the calls-th time.  A walk over
\* parent ids that enters get_depth more than len(self.nodes) + 1 times has
\* met a node twice and goes on for ever: Python ends it with a
\* RecursionError.
GetDepth(all, node_id, depth, calls) ==
    IF calls > Len(all) + 1 THEN RecursionError
    ELSE IF node_id \notin Ids(all) \/ NodeGet(all, node_id).parent_id = NoId
    THEN depth
    ELSE GetDepth(all, NodeGet(all, node_id).parent_id, depth + 1, calls + 1)

\* Mutant of MaxDepth: max() is given no default and has no value to return
\* for an empty node set.
MaxDepthNoDefault(all) ==
    LET depths == {GetDepth(all, all[i].id, 0, 1) : i \in 1..Len(all)}
    IN  IF RecursionError \in depths \/ depths = {} THEN RecursionError
        ELSE CHOOSE d \in depths : \A o \in depths : o <= d

\* max((get_depth(node_id) for node_id in self.nodes.keys()), default=0)
MaxDepth(all) ==
    LET depths == {GetDepth(all, all[i].id, 0, 1) : i \in 1..Len(all)}
    IN  IF RecursionError \in depths THEN RecursionError
        ELSE IF depths = {} THEN 0
        ELSE CHOOSE d \in depths : \A o \in depths : o <= d

ReferenceKinds == {"calls", "instantiates", "inherits", "implements"}

\* An edge get_statistics counts as a cross-file connection; a node's
\* file_path is the first component of its id.
CrossFile(all, e) ==
    /\ e.type \in ReferenceKinds
    /\ e.source \in Ids(all)
    /\ e.target \in Ids(all)
    /\ e.source[1] # e.target[1]

\* What get_statistics returns (but for the component count), or the
\* exception that leaves it when get_depth does not return.  avg_degree is the
\* fraction num / den; an edge adds 2 to the sum of the degrees.
Statistics(lang, all, es, g) ==
    IF MaxDepth(all) = RecursionError THEN [raised |-> "RecursionError"]
    ELSE [language |-> lang,
          total_nodes |-> Len(all),
          total_edges |-> Len(es),
          nodes_by_type |->
              [t \in {all[i].type : i \in 1..Len(all)} |->
                  Cardinality({i \in 1..Len(all) : all[i].type = t})],
          edges_by_type |->
              [t \in {es[i].type : i \in 1..Len(es)} |->
                  Cardinality({i \in 1..Len(es) : es[i].type = t})],
          avg_degree |->
              IF Cardinality(g.nodes) > 0
              THEN [num |-> 2 * Cardinality(DOMAIN g.edges), den |-> Cardinality(g.nodes)]
              ELSE [num |-> 0, den |-> 1],
          max_depth |-> MaxDepth(all),
          cross_file_connections |->
              Cardinality({i \in 1..Len(es) : CrossFile(all, es[i])})]

-----------------------------------------------------------------------------
(* The pipeline: __main__, build_graph *)

\* A file below a hidden or build directory ('.'-prefixed part, 'target',
\* 'build', 'dist', '__pycache__'): the scan yields it, build_graph skips it.
HiddenPath == 0
AllPaths == Paths \cup {HiddenPath}
Selected(p) == p # HiddenPath

\* The files with the language's extension that exist.
Existing(r) == {p \in AllPaths : r[p] # 0}

\* get_statistics has not returned; no circle-packing layout has been computed.
NoStats == <<>>
NoCircles == <<>>

NoBuild == [built |-> FALSE, ids |-> {}, edges |-> <<>>, positions |-> NoMeta]

Init ==
    /\ language \in Languages
    /\ repo \in [AllPaths -> 0..Max(Len(JavaSources), Len(PythonSources))]
    /\ \A p \in Paths : repo[p] <= NumSources(language)
    /\ repo[HiddenPath] <= 1
    /\ pc = "scan"
    /\ pending = Existing(repo)
    /\ file_count = 0
    /\ nodes = <<>>
    /\ edges = <<>>
    /\ resolver_calls = 0
    /\ pre_edges = <<>>
    /\ resolved_count = 0
    /\ unresolved_count = 0
    /\ graph = EmptyGraph
    /\ positions = NoMeta
    /\ node_sizes = NoMeta
    /\ exported = <<>>
    /\ stats = NoStats
    /\ circles = NoCircles
    /\ prev = NoBuild

\* Mutant of ScanDone: the resolver does not wait for the end of the scan.
ScanDoneEarly == TRUE

\* The scan loop of build_graph has yielded every file.
ScanDone == pending = {}

\* build_graph: the scan yields a file below a hidden or build directory.
SkipFile(p) ==
    /\ pc = "scan"
    /\ p \in pending
    /\ ~Selected(p)
    /\ pending' = pending \ {p}
    /\ UNCHANGED <<language, repo, pc, file_count, nodes, edges, resolver_calls,
                   pre_edges, resolved_count, unresolved_count, graph, positions,
                   node_sizes, exported, stats, circles, prev>>

\* build_graph: the scan yields a selected file; _process_file(file_path).
ProcessFile(p) ==
    /\ pc = "scan"
    /\ p \in pending
    /\ Selected(p)
    /\ LET out == ProcessedFile(language, repo[p], FileId(p), nodes, edges)
       IN  /\ nodes' = out.nodes
           /\ edges' = out.edges
    /\ pending' = pending \ {p}
    /\ file_count' = file_count + 1
    /\ UNCHANGED <<language, repo, pc, resolver_calls, pre_edges, resolved_count,
                   unresolved_count, graph, positions, node_sizes, exported, stats,
                   circles, prev>>

\* The effect of one call of _resolve_cross_file_references.
ResolverPass ==
    LET r == ResolveReferences(nodes, edges)
    IN  /\ pre_edges' = edges
        /\ edges' = r.resolved_edges
        /\ resolved_count' = r.resolved_count
        /\ unresolved_count' = r.unresolved_count
        /\ resolver_calls' = resolver_calls + 1

\* build_graph: self._resolve_cross_file_references() after the scan loop.
Resolve ==
    /\ pc = "scan"
    /\ ScanDone
    /\ ResolverPass
    /\ pc' = "construct"
    /\ UNCHANGED <<language, repo, pending, file_count, nodes, graph, positions,
                   node_sizes, exported, stats, circles, prev>>

\* build_graph: self._construct_graph(), and build_graph returns.
ConstructGraph ==
    /\ pc = "construct"
    /\ graph' = ConstructedGraph(nodes, edges)
    /\ pc' = "built"
    /\ UNCHANGED <<language, repo, pending, file_count, nodes, edges, resolver_calls,
                   pre_edges, resolved_count, unresolved_count, positions,
                   node_sizes, exported, stats, circles, prev>>

\* _resolve_cross_file_references() called again on the built graph.
ResolveAgain ==
    /\ pc = "built"
    /\ resolver_calls < MaxResolverCalls
    /\ ResolverPass
    /\ UNCHANGED <<language, repo, pc, pending, file_count, nodes, graph, positions,
                   node_sizes, exported, stats, circles, prev>>

\* visualize_hierarchical: returns at once without nodes, else lays the nodes
\* out (the drawing itself changes no state).
Visualize ==
    /\ pc = "built"
    /\ IF Len(nodes) = 0
       THEN UNCHANGED <<positions, node_sizes>>
       ELSE LET layout == CalculatePositions(nodes)
            IN  /\ positions' = layout.positions
                /\ node_sizes' = layout.node_sizes
    /\ pc' = "visualized"
    /\ UNCHANGED <<language, repo, pending, file_count, nodes, edges, resolver_calls,
                   pre_edges, resolved_count, unresolved_count, graph, exported, stats,
                   circles, prev>>

\* export_to_json
Export ==
    /\ pc = "visualized"
    /\ exported' = <<ExportDocument(language, nodes, edges)>>
    /\ pc' = "exported"
    /\ UNCHANGED <<language, repo, pending, file_count, nodes, edges, resolver_calls,
                   pre_edges, resolved_count, unresolved_count, graph, positions,
                   node_sizes, stats, circles, prev>>

\* get_statistics, whose result __main__ prints.
Report ==
    /\ pc = "exported"
    /\ stats' = <<Statistics(language, nodes, edges, graph)>>
    /\ pc' = "reported"
    /\ UNCHANGED <<language, repo, pending, file_count, nodes, edges, resolver_calls,
                   pre_edges, resolved_count, unresolved_count, graph, positions,
                   node_sizes, exported, circles, prev>>

\* The program is run again on the unchanged repository: a new builder,
\* whose scan may yield the files in another order.
Rebuild ==
    /\ pc = "reported"
    /\ prev' = [built |-> TRUE, ids |-> Ids(nodes), edges |-> edges,
                positions |-> positions]
    /\ pc' = "scan"
    /\ pending' = Existing(repo)
    /\ file_count' = 0
    /\ nodes' = <<>>
    /\ edges' = <<>>
    /\ resolver_calls' = 0
    /\ pre_edges' = <<>>
    /\ resolved_count' = 0
    /\ unresolved_count' = 0
    /\ graph' = EmptyGraph
    /\ positions' = NoMeta
    /\ node_sizes' = NoMeta
    /\ exported' = <<>>
    /\ stats' = NoStats
    /\ circles' = NoCircles
    /\ UNCHANGED <<language, repo>>

Next ==
    \/ \E p \in AllPaths : SkipFile(p)
    \/ \E p \in AllPaths : ProcessFile(p)
    \/ Resolve
    \/ ConstructGraph
    \/ ResolveAgain
    \/ Visualize
    \/ Export
    \/ Report

Spec == Init /\ [][Next]_vars

NextRebuild == Next \/ Rebuild

\* Repeated builds over one repository.
SpecRebuild == Init /\ [][NextRebuild]_vars

-----------------------------------------------------------------------------
(* The stages after resolution, applied to any node set and edge list:      *)
(* _construct_graph, HierarchicalLayout, export_to_json and get_statistics  *)
(* take self.nodes and self.edges as they are.                              *)

\* Ids of the nodes of such a node set, in the order str compares them, and
\* an id that names no node.
StageIds == << <<"a.src">>, <<"b.src">>, <<"c.src">>, <<"d.src">> >>
Dangling == <<"e.src">>
StageKinds == <<FILE, CLASS, METHOD>>

\* A node set of n nodes: in ascending or descending order of id, of kinds
\* that rotate with shift, of any parent_id: None, the id of no node, the
\* node's own id or the id of another node (a cycle included).
StageNodes(n, descending, shift, parent) ==
    [i \in 1..n |->
        LET k == IF descending THEN n + 1 - i ELSE i
        IN  CodeNode(StageIds[k], StageIds[k][1], StageKinds[((k + shift) % 3) + 1],
                     0, parent[k])]

StageNodeSets ==
    {StageNodes(n, descending, shift, parent) :
        n \in 0..MaxNodes, descending \in BOOLEAN, shift \in 0..2,
        parent \in [1..MaxNodes -> {NoId, Dangling} \cup {StageIds[j] : j \in 1..MaxNodes}]}

\* An edge list with edges between nodes, an edge from an id that names no
\* node and edges to a placeholder, to an external name and to no node.
StageEdges ==
    << CodeEdge(<<"a.src">>, <<"b.src">>, "contains", NoMeta),
       CodeEdge(<<"a.src">>, <<"external::", "lib">>, "imports", NoMeta),
       CodeEdge(<<"b.src">>, <<"a.src">>, "calls", [call_type |-> "function"]),
       CodeEdge(Dangling, <<"a.src">>, "calls", NoMeta),
       CodeEdge(<<"a.src">>, Unresolved("Foo"), "calls", NoMeta),
       CodeEdge(<<"c.src">>, <<"a.src">>, "inherits", NoMeta),
       CodeEdge(<<"a.src">>, <<"b.src">>, "calls", NoMeta),
       CodeEdge(<<"b.src">>, Dangling, "calls", NoMeta) >>

Reverse(seq) == [i \in 1..Len(seq) |-> seq[Len(seq) + 1 - i]]

StageEdgeLists == {<<>>, StageEdges, Reverse(StageEdges)}

InitStages ==
    /\ language = "java"
    /\ repo = [p \in AllPaths |-> 0]
    /\ pc = "construct"
    /\ pending = {}
    /\ file_count = 0
    /\ nodes \in StageNodeSets
    /\ edges \in StageEdgeLists
    /\ resolver_calls = 0
    /\ pre_edges = <<>>
    /\ resolved_count = 0
    /\ unresolved_count = 0
    /\ graph = EmptyGraph
    /\ positions = NoMeta
    /\ node_sizes = NoMeta
    /\ exported = <<>>
    /\ stats = NoStats
    /\ circles = NoCircles
    /\ prev = NoBuild

\* The circle-packing layout of the node set is computed.
PackCircles ==
    /\ pc = "built"
    /\ circles = NoCircles
    /\ circles' = <<CirclePacking(nodes)>>
    /\ UNCHANGED <<language, repo, pc, pending, file_count, nodes, edges, resolver_calls,
                   pre_edges, resolved_count, unresolved_count, graph, positions,
                   node_sizes, exported, stats, prev>>

NextStages ==
    \/ ConstructGraph
    \/ PackCircles
    \/ Visualize
    \/ Export
    \/ Report

SpecStages == InitStages /\ [][NextStages]_vars

-----------------------------------------------------------------------------
(* Properties of the resolver and of build_graph *)

\* The placeholder edges of an edge list.
Placeholders(es) == {i \in 1..Len(es) : IsUnresolved(es[i].target)}

\* The call type the resolver dispatches on (absent metadata: 'function').
EffectiveCallType(e) == Get(e.metadata, "call_type", "function")

NodesNamed(type, name) ==
    {i \in 1..Len(nodes) : nodes[i].type = type /\ nodes[i].name = name}

\* The Method nodes named m whose parent is a Class node named r.
MethodsOf(r, m) ==
    {i \in 1..Len(nodes) :
        /\ nodes[i].type = METHOD
        /\ nodes[i].name = m
        /\ NodeGet(nodes, nodes[i].parent_id).type = CLASS
        /\ NodeGet(nodes, nodes[i].parent_id).name = r}

IdsAt(S) == {nodes[i].id : i \in S}

\* The edges the latest pass received that read exactly as e does.
PreLike(e) ==
    {j \in 1..Len(pre_edges) :
        /\ pre_edges[j].source = e.source
        /\ pre_edges[j].target = e.target
        /\ pre_edges[j].metadata = e.metadata}

\* The reference edges the pass left that stem from an edge reading as e:
\* same source and metadata, and a target node of the name e refers to.
PostLike(e) ==
    {k \in 1..Len(edges) :
        /\ edges[k].source = e.source
        /\ edges[k].metadata = e.metadata
        /\ edges[k].type # "contains"
        /\ NodeGet(nodes, edges[k].target).name = TargetName(e.target)}

IndexOf(id) == CHOOSE i \in 1..Len(nodes) : nodes[i].id = id

\* The nodes the lookup tables register, and when two of them share a key.
Registered(n) ==
    \/ n.type \in {FUNCTION, CLASS}
    \/ n.type = METHOD /\ NodeGet(nodes, n.parent_id).type = CLASS
SameKey(a, b) ==
    /\ a.type = b.type
    /\ a.name = b.name
    /\ a.type = METHOD =>
          NodeGet(nodes, a.parent_id).name = NodeGet(nodes, b.parent_id).name

LookupKey(n) ==
    IF n.type = METHOD THEN <<NodeGet(nodes, n.parent_id).name, n.name>> ELSE n.name
TableOf(t, n) ==
    CASE n.type = FUNCTION -> t.function_lookup
      [] n.type = CLASS -> t.class_lookup
      [] n.type = METHOD -> t.method_lookup

\* C1: once _resolve_cross_file_references has returned, both ends of every
\* edge of self.edges are ids of nodes of self.nodes and no target is an
\* "unresolved::" placeholder.
C1_EndpointsAreNodes ==
    resolver_calls >= 1 =>
        \A k \in 1..Len(edges) :
            /\ edges[k].source \in Ids(nodes)
            /\ edges[k].target \in Ids(nodes)
            /\ ~IsUnresolved(edges[k].target)

\* A pass that rewrote some placeholder edges and dropped others.
C1_Witness ==
    /\ resolver_calls = 1
    /\ resolved_count > 0
    /\ unresolved_count > 0
    /\ Len(edges) < Len(pre_edges)

C3_FunctionThenClass ==
    resolver_calls >= 1 =>
        \A i \in Placeholders(pre_edges) :
            LET e == pre_edges[i]
                n == TargetName(e.target)
            IN  EffectiveCallType(e) = "function" =>
                  IF NodesNamed(FUNCTION, n) # {}
                  THEN /\ Cardinality(PostLike(e)) = Cardinality(PreLike(e))
                       /\ \A k \in PostLike(e) :
                             edges[k].target \in IdsAt(NodesNamed(FUNCTION, n))
                       /\ \A type \in {"calls", "instantiates", "inherits", "implements"} :
                             Cardinality({k \in PostLike(e) : edges[k].type = type})
                             = Cardinality({j \in PreLike(e) : pre_edges[j].type = type})
                  ELSE IF NodesNamed(CLASS, n) # {}
                  THEN /\ Cardinality(PostLike(e)) = Cardinality(PreLike(e))
                       /\ \A k \in PostLike(e) :
                             /\ edges[k].target \in IdsAt(NodesNamed(CLASS, n))
                             /\ edges[k].type = "instantiates"
                  ELSE PostLike(e) = {}

\* One pass with a call that resolves to a function, a call that resolves to
\* a class and is reclassified, and a call that names neither and is dropped.
C3_Witness ==
    /\ resolver_calls = 1
    /\ \E i \in Placeholders(pre_edges) :
          /\ "call_type" \in DOMAIN pre_edges[i].metadata
          /\ pre_edges[i].metadata.call_type = "function"
          /\ NodesNamed(FUNCTION, TargetName(pre_edges[i].target)) # {}
          /\ \E k \in PostLike(pre_edges[i]) : edges[k].type = "calls"
    /\ \E i \in Placeholders(pre_edges) :
          /\ "call_type" \in DOMAIN pre_edges[i].metadata
          /\ pre_edges[i].metadata.call_type = "function"
          /\ NodesNamed(FUNCTION, TargetName(pre_edges[i].target)) = {}
          /\ NodesNamed(CLASS, TargetName(pre_edges[i].target)) # {}
          /\ \E k \in PostLike(pre_edges[i]) : edges[k].type = "instantiates"
    /\ \E i \in Placeholders(pre_edges) :
          /\ "call_type" \in DOMAIN pre_edges[i].metadata
          /\ pre_edges[i].metadata.call_type = "function"
          /\ NodesNamed(FUNCTION, TargetName(pre_edges[i].target)) = {}
          /\ NodesNamed(CLASS, TargetName(pre_edges[i].target)) = {}

\* C4 as claimed: a placeholder edge of call type 'constructor' naming a
\* class that exists leaves an 'instantiates' edge from the same method to
\* a Class node of that name.
C4_ConstructorResolves ==
    resolver_calls >= 1 =>
        \A i \in Placeholders(pre_edges) :
            LET e == pre_edges[i]
                n == TargetName(e.target)
            IN  EffectiveCallType(e) = "constructor" /\ NodesNamed(CLASS, n) # {} =>
                  \E k \in 1..Len(edges) :
                     /\ edges[k].source = e.source
                     /\ edges[k].type = "instantiates"
                     /\ edges[k].target \in IdsAt(NodesNamed(CLASS, n))

\* C5 as claimed: a placeholder edge of call type 'static' with class
\* qualifier C and method name m survives with the method m of a class named
\* C as its target, whenever that method exists.
C5_StaticResolves ==
    resolver_calls >= 1 =>
        \A i \in Placeholders(pre_edges) :
            LET e == pre_edges[i]
                m == TargetName(e.target)
                c == Get(e.metadata, "class", NoStr)
            IN  EffectiveCallType(e) = "static" /\ MethodsOf(c, m) # {} =>
                  \E k \in 1..Len(edges) :
                     /\ edges[k].source = e.source
                     /\ edges[k].metadata = e.metadata
                     /\ edges[k].target \in IdsAt(MethodsOf(c, m))

\* C6: a placeholder edge of call type 'method' with receiver r and name m
\* survives, with kind 'calls' and a method m of a class named r as target,
\* exactly if r is given, names a class and that class has a method m;
\* otherwise it is dropped.
C6_MethodByReceiver ==
    resolver_calls >= 1 =>
        \A i \in Placeholders(pre_edges) :
            LET e == pre_edges[i]
                m == TargetName(e.target)
                r == Get(e.metadata, "object", NoStr)
            IN  EffectiveCallType(e) = "method" =>
                  IF r # NoStr /\ NodesNamed(CLASS, r) # {} /\ MethodsOf(r, m) # {}
                  THEN /\ Cardinality(PostLike(e)) = Cardinality(PreLike(e))
                       /\ \A k \in PostLike(e) :
                             /\ edges[k].target \in IdsAt(MethodsOf(r, m))
                             /\ edges[k].type = "calls"
                  ELSE PostLike(e) = {}

\* One pass with a method call that resolves, one without receiver, one on a
\* receiver that is no class and one on a class that lacks the method.
C6_Witness ==
    /\ resolver_calls = 1
    /\ \E i \in Placeholders(pre_edges) :
          LET e == pre_edges[i]
          IN  /\ EffectiveCallType(e) = "method"
              /\ MethodsOf(e.metadata.object, TargetName(e.target)) # {}
              /\ PostLike(e) # {}
    /\ \E i \in Placeholders(pre_edges) :
          LET e == pre_edges[i]
          IN  EffectiveCallType(e) = "method" /\ e.metadata.object = NoStr
    /\ \E i \in Placeholders(pre_edges) :
          LET e == pre_edges[i]
          IN  /\ EffectiveCallType(e) = "method"
              /\ e.metadata.object # NoStr
              /\ NodesNamed(CLASS, e.metadata.object) = {}
    /\ \E i \in Placeholders(pre_edges) :
          LET e == pre_edges[i]
          IN  /\ EffectiveCallType(e) = "method"
              /\ NodesNamed(CLASS, e.metadata.object) # {}
              /\ MethodsOf(e.metadata.object, TargetName(e.target)) = {}

\* A method call whose receiver is not a class of the repository.
ForeignReceiver(e) ==
    /\ IsUnresolved(e.target)
    /\ EffectiveCallType(e) = "method"
    /\ NodesNamed(CLASS, Get(e.metadata, "object", NoStr)) = {}

\* C7: a pass accounts for every placeholder edge: resolved_count plus
\* unresolved_count is the number of placeholder edges it received, the edge
\* list shrinks by unresolved_count, and every method call on a receiver that
\* is no class of the repository is dropped and counted as unresolved.
C7_EveryPlaceholderCounted ==
    resolver_calls >= 1 =>
        /\ resolved_count + unresolved_count = Cardinality(Placeholders(pre_edges))
        /\ Len(edges) = Len(pre_edges) - unresolved_count
        /\ \A i \in 1..Len(pre_edges) :
              ForeignReceiver(pre_edges[i]) => PostLike(pre_edges[i]) = {}
        /\ unresolved_count
             >= Cardinality({i \in 1..Len(pre_edges) : ForeignReceiver(pre_edges[i])})

\* A pass that dropped a method call on a foreign receiver and resolved
\* another edge.
C7_Witness ==
    /\ resolver_calls = 1
    /\ \E i \in 1..Len(pre_edges) : ForeignReceiver(pre_edges[i])
    /\ resolved_count >= 1
    /\ unresolved_count >= 2

\* C8: a second pass over the resolver's own output changes nothing: the edge
\* list is the one it received and it resolves 0 and drops 0 edges.
C8_SecondPassIsNoOp ==
    resolver_calls >= 2 =>
        /\ edges = pre_edges
        /\ resolved_count = 0
        /\ unresolved_count = 0

\* A second pass over an edge list that holds resolved reference edges.
C8_Witness ==
    /\ resolver_calls = 2
    /\ \E k \in 1..Len(edges) : edges[k].type \in {"calls", "instantiates"}

\* C9 as claimed: a build over an unchanged repository ends with the node
\* ids, the edge list and the layout coordinates of the build before it,
\* whatever the order in which the scans yielded the files.
C9_BuildsAgree ==
    prev.built /\ pc = "exported" =>
        /\ Ids(nodes) = prev.ids
        /\ edges = prev.edges
        /\ positions = prev.positions

\* C10: the resolver runs only when the scan has yielded every file and every
\* selected file's nodes are merged, once before the graph is constructed;
\* the graph, the layout and the export exist only after it has run.
C10_ResolveAfterAggregation ==
    /\ resolver_calls >= 1 =>
          /\ pending = {}
          /\ file_count = Cardinality({p \in Existing(repo) : Selected(p)})
          /\ \A p \in Existing(repo) : Selected(p) => FileId(p) \in Ids(nodes)
    /\ pc = "scan" => resolver_calls = 0
    /\ pc = "construct" => resolver_calls = 1
    /\ graph # EmptyGraph \/ positions # NoMeta \/ exported # <<>> =>
          resolver_calls >= 1 /\ pc \notin {"scan", "construct"}

\* A finished run over two files in which an edge was resolved across files.
C10_Witness ==
    /\ pc = "exported"
    /\ file_count >= 2
    /\ \E k \in 1..Len(exported[1].edges) :
          /\ exported[1].edges[k].type # "contains"
          /\ exported[1].edges[k].source[1] # exported[1].edges[k].target[1]

-----------------------------------------------------------------------------
(* Properties of the containment tree, the layout and the export *)

\* A node without a parent among the nodes.
IsRoot(n) == n.parent_id = NoId \/ n.parent_id \notin Ids(nodes)

\* The ids of the nodes whose parent_id is id, in the order of self.nodes.
ChildrenOf(id) ==
    LET at == SelectSeq([i \in 1..Len(nodes) |-> i],
                        LAMBDA i : nodes[i].parent_id = id)
    IN  [j \in 1..Len(at) |-> nodes[at[j]].id]

\* The ids of the root nodes, in the order of self.nodes.
RootIds ==
    LET at == SelectSeq([i \in 1..Len(nodes) |-> i], LAMBDA i : IsRoot(nodes[i]))
    IN  [j \in 1..Len(at) |-> nodes[at[j]].id]

LaidOut == pc \in {"visualized", "exported", "reported"} /\ Len(nodes) > 0

\* C11: the layout and the hierarchy export treat a node as a root exactly if
\* its parent_id is None or names no node: the layout positions exactly these
\* nodes at y = 0, the export's root list holds exactly these nodes, and a
\* node with a dangling parent_id is among them.
C11_RootsByParent ==
    /\ LaidOut =>
          \A i \in 1..Len(nodes) :
              IsRoot(nodes[i]) <=>
                  /\ nodes[i].id \in DOMAIN positions
                  /\ positions[nodes[i].id][2] = 0
    /\ exported # <<>> =>
          [j \in 1..Len(exported[1].hierarchical) |-> exported[1].hierarchical[j].id]
          = RootIds

\* An exported layout in which a node with a dangling parent_id has a child
\* of its own, next to a node without parent_id and a node that is no root.
C11_Witness ==
    /\ exported # <<>>
    /\ LaidOut
    /\ \E i, j, k \in 1..Len(nodes) :
          /\ nodes[i].parent_id = Dangling
          /\ nodes[j].parent_id = nodes[i].id
          /\ nodes[k].parent_id = NoId
          /\ positions[nodes[i].id][2] = 0
          /\ positions[nodes[j].id][2] > 0
          /\ \E r \in 1..Len(exported[1].hierarchical) :
                /\ exported[1].hierarchical[r].id = nodes[i].id
                /\ Len(exported[1].hierarchical[r].children) = 1

\* C12: a node's child list holds exactly the nodes whose parent_id is its
\* id, each once, in the order of self.nodes, and the layout places the
\* children of a positioned node in that order at strictly increasing x.
C12_ChildrenInDiscoveryOrder ==
    /\ \A i \in 1..Len(nodes) :
          Get(ContainmentTree(nodes).children, nodes[i].id, <<>>)
          = ChildrenOf(nodes[i].id)
    /\ LaidOut =>
          \A i \in 1..Len(nodes) :
              nodes[i].id \in DOMAIN positions =>
                  LET kids == ChildrenOf(nodes[i].id)
                  IN  /\ \A j \in 1..Len(kids) : kids[j] \in DOMAIN positions
                      /\ \A j, k \in 1..Len(kids) :
                            j < k => positions[kids[j]][1] < positions[kids[k]][1]

\* A positioned node with two children that were discovered in the reverse
\* of the order of their ids.
C12_Witness ==
    /\ LaidOut
    /\ \E i \in 1..Len(nodes) :
          LET kids == ChildrenOf(nodes[i].id)
          IN  /\ nodes[i].id \in DOMAIN positions
              /\ Len(kids) = 2
              /\ IdLess(kids[2], kids[1])
              /\ positions[kids[1]][1] < positions[kids[2]][1]

RECURSIVE ParentChain(_, _)
\* The ids met when walking parent_id from id for at most n steps: id, its
\* parent, ... up to the first id that is None or names no node.
ParentChain(id, n) ==
    IF id = NoId \/ id \notin Ids(nodes) \/ n = 0 THEN <<id>>
    ELSE <<id>> \o ParentChain(NodeGet(nodes, id).parent_id, n - 1)

\* C13: in the node set a build produces, no node is its own parent, and the
\* walk over parent_id from any node meets no node twice and ends within
\* len(nodes) steps at a node without parent_id; get_depth returns for
\* every node and max_depth is a number of at most len(nodes).
C13_ParentWalkTerminates ==
    /\ \A i \in 1..Len(nodes) :
          LET chain == ParentChain(nodes[i].id, Len(nodes))
          IN  /\ nodes[i].parent_id # nodes[i].id
              /\ chain[Len(chain)] = NoId
              /\ Len(chain) <= Len(nodes) + 1
              /\ \A j, k \in 1..Len(chain) : j < k => chain[j] # chain[k]
              /\ GetDepth(nodes, nodes[i].id, 0, 1) = Len(chain) - 2
    /\ stats # NoStats =>
          /\ "max_depth" \in DOMAIN stats[1]
          /\ stats[1].max_depth \in 0..Len(nodes)

\* A report over a build with a method in a class in a file: depth 2.
C13_Witness ==
    /\ pc = "reported"
    /\ stats[1].max_depth = 2
    /\ \E i \in 1..Len(nodes) :
          /\ nodes[i].type = METHOD
          /\ GetDepth(nodes, nodes[i].id, 0, 1) = 2

RECURSIVE LayerOf(_)
\* The containment depth of a positioned node: the parent steps to its root.
LayerOf(id) ==
    IF IsRoot(NodeGet(nodes, id)) THEN 0
    ELSE 1 + LayerOf(NodeGet(nodes, id).parent_id)

\* C14: a node that calculate_positions has positioned lies at y = 150 * d,
\* d its containment depth: a root at y = 0, a child 150 below its parent and
\* never on its parent's y.
C14_LayerByDepth ==
    LaidOut =>
        \A i \in 1..Len(nodes) :
            LET n == nodes[i]
            IN  n.id \in DOMAIN positions =>
                  /\ positions[n.id][2] = 150 * LayerOf(n.id)
                  /\ IsRoot(n) => positions[n.id][2] = 0
                  /\ ~IsRoot(n) =>
                        /\ n.parent_id \in DOMAIN positions
                        /\ positions[n.id][2] = positions[n.parent_id][2] + 150
                        /\ positions[n.id][2] # positions[n.parent_id][2]

\* A layout with a node at depth 2.
C14_Witness ==
    /\ LaidOut
    /\ \E i \in 1..Len(nodes) :
          /\ nodes[i].id \in DOMAIN positions
          /\ LayerOf(nodes[i].id) = 2
          /\ positions[nodes[i].id][2] = 300

RECURSIVE WidthSum(_)
\* The widths of the nodes kids, added up.
WidthSum(kids) ==
    IF kids = <<>> THEN 0 ELSE node_sizes[Head(kids)][1] + WidthSum(Tail(kids))

\* The combined width of a row of boxes with 50-unit gaps.
RowWidth(kids) == WidthSum(kids) + 50 * (Len(kids) - 1)

\* The greatest height among the nodes kids.
RowHeight(kids) ==
    CHOOSE h \in {node_sizes[kids[j]][2] : j \in 1..Len(kids)} :
        \A j \in 1..Len(kids) : node_sizes[kids[j]][2] <= h

\* C15: the size of a leaf is (150, 100); the size of a node with children
\* is, with base the children's widths plus 50-unit gaps and h the greatest
\* child height, (max(base+100, 300), h+200) for a File, (max(base+80, 250),
\* h+150) for a Class and (max(base, 150), h+100) for any other kind; so a
\* node is at least as wide as the row of its children.
C15_SubtreeSizes ==
    LaidOut =>
        \A i \in 1..Len(nodes) :
            LET n == nodes[i]
                kids == ChildrenOf(n.id)
            IN  n.id \in DOMAIN positions =>
                  /\ n.id \in DOMAIN node_sizes
                  /\ \A j \in 1..Len(kids) : kids[j] \in DOMAIN node_sizes
                  /\ IF kids = <<>> THEN node_sizes[n.id] = <<150, 100>>
                     ELSE LET base == RowWidth(kids)
                              h == RowHeight(kids)
                          IN  /\ node_sizes[n.id] =
                                    CASE n.type = FILE -> <<Max(base + 100, 300), h + 200>>
                                      [] n.type = CLASS -> <<Max(base + 80, 250), h + 150>>
                                      [] OTHER -> <<Max(base, 150), h + 100>>
                              /\ node_sizes[n.id][1] >= base

\* A layout with a Class node over two leaves, wider than a Class's minimum
\* width: two boxes of 150, a gap of 50 and a padding of 80.
C15_Witness ==
    /\ LaidOut
    /\ \E i \in 1..Len(nodes) :
          LET kids == ChildrenOf(nodes[i].id)
          IN  /\ nodes[i].type = CLASS
              /\ nodes[i].id \in DOMAIN positions
              /\ Len(kids) = 2
              /\ node_sizes[kids[1]] = <<150, 100>>
              /\ node_sizes[nodes[i].id] = <<430, 250>>

\* The root nodes the layout placed left of the root r.
RootsLeftOf(r) ==
    {q \in {RootIds[j] : j \in 1..Len(RootIds)} : positions[q][1] < positions[r][1]}

RECURSIVE Advance(_)
\* The subtree widths of the roots S, each with a 100-unit gap, added up.
Advance(S) ==
    IF S = {} THEN 0
    ELSE LET q == CHOOSE q \in S : TRUE
         IN  node_sizes[q][1] + 100 + Advance(S \ {q})

\* C16: the roots lie at y = 0 from left to right: a root's x is what the
\* roots placed before it take (subtree width plus 100 each) plus half its
\* own subtree width, so no two roots share an x and neighbouring roots'
\* boxes are exactly 100 apart.
C16_RootsLeftToRight ==
    LaidOut =>
        /\ \A j \in 1..Len(RootIds) :
              LET r == RootIds[j]
              IN  /\ positions[r][2] = 0
                  /\ 2 * positions[r][1] = 2 * Advance(RootsLeftOf(r)) + node_sizes[r][1]
        /\ \A j, k \in 1..Len(RootIds) :
              j # k => positions[RootIds[j]][1] # positions[RootIds[k]][1]
        /\ \A j, k \in 1..Len(RootIds) :
              LET l == RootIds[j]
                  r == RootIds[k]
              IN  RootsLeftOf(r) = RootsLeftOf(l) \cup {l} =>
                     2 * positions[r][1] - node_sizes[r][1]
                     = 2 * positions[l][1] + node_sizes[l][1] + 200

\* A layout with two roots, the left one a File over a child (300 wide), so
\* that the right one, a leaf, lies at 300 + 100 + 75.
C16_Witness ==
    /\ LaidOut
    /\ Len(RootIds) = 2
    /\ \E j, k \in 1..2 :
          /\ RootsLeftOf(RootIds[j]) = {}
          /\ ChildrenOf(RootIds[j]) # <<>>
          /\ node_sizes[RootIds[j]][1] = 300
          /\ positions[RootIds[j]][1] = 150
          /\ positions[RootIds[k]][1] = 475

\* C17: the row of a positioned node's children, with 50-unit gaps, is
\* centered on the node's x: with T the row's width, the first child's box
\* starts at x - T/2, the last child's box ends at x + T/2, and a child's
\* center lies half its width right of the end of the boxes and gaps before
\* it.
C17_ChildrenCentered ==
    LaidOut =>
        \A i \in 1..Len(nodes) :
            LET n == nodes[i]
                kids == ChildrenOf(n.id)
                k == Len(kids)
                T == RowWidth(kids)
                X == IF n.id \in DOMAIN positions THEN positions[n.id][1] ELSE 0
            IN  n.id \in DOMAIN positions /\ k > 0 =>
                  /\ 2 * positions[kids[1]][1] - node_sizes[kids[1]][1] = 2 * X - T
                  /\ 2 * positions[kids[k]][1] + node_sizes[kids[k]][1] = 2 * X + T
                  /\ \A j \in 1..k :
                        2 * positions[kids[j]][1] =
                            (2 * X - T) + 2 * (RowWidth(SubSeq(kids, 1, j - 1)) + 50)
                            + node_sizes[kids[j]][1]

\* A layout with a node over two children, one on either side of its x.
C17_Witness ==
    /\ LaidOut
    /\ \E i \in 1..Len(nodes) :
          LET kids == ChildrenOf(nodes[i].id)
          IN  /\ nodes[i].id \in DOMAIN positions
              /\ Len(kids) = 2
              /\ positions[kids[1]][1] < positions[nodes[i].id][1]
              /\ positions[kids[2]][1] > positions[nodes[i].id][1]

\* C18: in a circle-packing layout every circle lies inside its parent's: the
\* distance between the two centers plus the node's radius is at most the
\* parent's radius; an only child is concentric with its parent, whose radius
\* is the child's plus 30; several children lie at max(R - m - 10, m + 20)
\* from the center of their parent, R its radius and m their greatest radius.
C18_CircleContainment ==
    circles # NoCircles =>
        LET radius == circles[1].radius
            center == circles[1].center
        IN  \A i \in 1..Len(nodes) :
              LET n == nodes[i]
                  sibs == ChildrenOf(n.parent_id)
              IN  n.id \in DOMAIN center /\ ~IsRoot(n) =>
                    /\ center[n.id].parent = n.parent_id
                    /\ center[n.id].dist + radius[n.id] <= radius[n.parent_id]
                    /\ Len(sibs) = 1 =>
                          /\ center[n.id].dist = 0
                          /\ radius[n.parent_id] = radius[n.id] + 30
                    /\ Len(sibs) > 1 =>
                          center[n.id].dist =
                              Max(radius[n.parent_id] - MaxRadius(sibs, radius) - 10,
                                  MaxRadius(sibs, radius) + 20)

\* A packing with two children of different radii, the larger of which lies
\* at its radius plus 20 from the center of their parent.
C18_Witness ==
    /\ circles # NoCircles
    /\ \E i, j \in 1..Len(nodes) :
          LET sibs == ChildrenOf(nodes[i].parent_id)
              radius == circles[1].radius
              center == circles[1].center
          IN  /\ nodes[i].id \in DOMAIN center
              /\ ~IsRoot(nodes[i])
              /\ nodes[j].parent_id = nodes[i].parent_id
              /\ Len(sibs) = 2
              /\ radius[nodes[i].id] < radius[nodes[j].id]
              /\ center[nodes[j].id].dist = radius[nodes[j].id] + 20

RECURSIVE Occurrences(_, _)
\* How often the forest holds an entry for id, at any depth.
Occurrences(entries, id) ==
    IF entries = <<>> THEN 0
    ELSE (IF Head(entries).id = id THEN 1 ELSE 0)
         + Occurrences(Head(entries).children, id)
         + Occurrences(Tail(entries), id)

RECURSIVE HoldersOf(_, _)
\* The ids of the entries of the forest whose children list holds id.
HoldersOf(entries, id) ==
    IF entries = <<>> THEN {}
    ELSE (IF \E j \in 1..Len(Head(entries).children) :
                Head(entries).children[j].id = id
          THEN {Head(entries).id} ELSE {})
         \cup HoldersOf(Head(entries).children, id)
         \cup HoldersOf(Tail(entries), id)

\* C19: the exported document lists every node of the build once in "nodes"
\* and once in the "hierarchical" forest: a node without parent as a root
\* entry, any other node in the children list of the entry of its parent_id
\* and of no other entry.
C19_EveryNodeOnceInExport ==
    exported # <<>> =>
        LET doc == exported[1]
        IN  /\ Len(doc.nodes) = Len(nodes)
            /\ \A i \in 1..Len(nodes) :
                  LET n == nodes[i]
                  IN  /\ Cardinality({j \in 1..Len(doc.nodes) : doc.nodes[j].id = n.id}) = 1
                      /\ Occurrences(doc.hierarchical, n.id) = 1
                      /\ IF IsRoot(n)
                         THEN /\ \E j \in 1..Len(doc.hierarchical) :
                                    doc.hierarchical[j].id = n.id
                              /\ HoldersOf(doc.hierarchical, n.id) = {}
                         ELSE HoldersOf(doc.hierarchical, n.id) = {n.parent_id}

\* An export of two files' nodes with a method below a class below a file.
C19_Witness ==
    /\ exported # <<>>
    /\ Len(exported[1].hierarchical) = 2
    /\ \E i \in 1..Len(nodes) :
          /\ nodes[i].type = METHOD
          /\ Occurrences(exported[1].hierarchical, nodes[i].id) = 1
          /\ HoldersOf(exported[1].hierarchical, nodes[i].id) = {nodes[i].parent_id}

\* The edges of self.edges that join two nodes, in their order.
JoiningEdges ==
    SelectSeq(edges, LAMBDA e : \E i, j \in 1..Len(nodes) :
                                   nodes[i].id = e.source /\ nodes[j].id = e.target)

\* C20: the exported "edges" are the edges of self.edges whose source and
\* target are both ids of nodes, in their order; the edges of the graph are
\* the same ones.
C20_EdgesBetweenNodes ==
    /\ exported # <<>> =>
          /\ Len(exported[1].edges) = Len(JoiningEdges)
          /\ \A k \in 1..Len(JoiningEdges) :
                /\ exported[1].edges[k].source = JoiningEdges[k].source
                /\ exported[1].edges[k].target = JoiningEdges[k].target
                /\ exported[1].edges[k].type = JoiningEdges[k].type
    /\ pc \notin {"scan", "construct"} =>
          DOMAIN graph.edges
          = {<<JoiningEdges[k].source, JoiningEdges[k].target>> : k \in 1..Len(JoiningEdges)}

\* An export that kept some edges in their order and left out an edge from
\* no node, an edge to no node, an edge to a placeholder and an edge to an
\* external name.
C20_Witness ==
    /\ exported # <<>>
    /\ Len(exported[1].edges) >= 3
    /\ exported[1].edges[1].type # exported[1].edges[2].type
    /\ \E k \in 1..Len(edges) : edges[k].source \notin Ids(nodes)
    /\ \E k \in 1..Len(edges) :
          edges[k].source \in Ids(nodes) /\ edges[k].target = Dangling
    /\ \E k \in 1..Len(edges) :
          edges[k].source \in Ids(nodes) /\ IsUnresolved(edges[k].target)
    /\ \E k \in 1..Len(edges) :
          edges[k].source \in Ids(nodes) /\ IsExternal(edges[k].target)
    /\ Cardinality(DOMAIN graph.edges) < Len(exported[1].edges)

-----------------------------------------------------------------------------
(* Properties of the parsers' output, the failure paths and the frame *)

\* The 'contains' edges of self.edges from s to t.
ContainsEdges(s, t) ==
    {k \in 1..Len(edges) :
        edges[k].type = "contains" /\ edges[k].source = s /\ edges[k].target = t}

\* The 'contains' edges of an edge list, in their order.
ContainsOf(es) == SelectSeq(es, LAMBDA e : e.type = "contains")

\* C21: 'contains' edges and parent_id relationships correspond one to one:
\* every node with a parent_id p is the target of exactly one 'contains' edge
\* from p, every 'contains' edge from s to t has a node t whose parent_id is
\* s, and a resolver pass leaves the 'contains' edges as they were.
C21_ContainsMirrorsParents ==
    /\ \A i \in 1..Len(nodes) :
          nodes[i].parent_id # NoId =>
              Cardinality(ContainsEdges(nodes[i].parent_id, nodes[i].id)) = 1
    /\ \A k \in 1..Len(edges) :
          edges[k].type = "contains" =>
              /\ edges[k].target \in Ids(nodes)
              /\ NodeGet(nodes, edges[k].target).parent_id = edges[k].source
    /\ resolver_calls > 0 => ContainsOf(edges) = ContainsOf(pre_edges)

\* The 'contains' edges of self.edges.
AllContains == {k \in 1..Len(edges) : edges[k].type = "contains"}

\* C22: no two declarations receive the same id: self.nodes holds one node
\* per processed file and one per declaration a parser emitted (each of which
\* comes with its own 'contains' edge), none overwritten by another.
C22_OneNodePerDeclaration ==
    Len(nodes) = file_count + Cardinality(AllContains)

\* The content of the file a node was parsed from.
PathOf(n) == CHOOSE p \in Paths : FileId(p) = <<n.id[1]>>
ContentOf(n) == repo[PathOf(n)]

\* The number of blocks open after line j of a Java file.
RECURSIVE BraceDepth(_, _)
BraceDepth(lines, j) ==
    IF j = 0 THEN 0
    ELSE BraceDepth(lines, j - 1) + lines[j].opens - lines[j].closes

\* The class declarations whose body, opened on line c, is still open when
\* line i begins.
EnclosingClasses(lines, i) ==
    {c \in 1..(i - 1) :
        /\ lines[c].cls # NoStr
        /\ \A j \in c..(i - 1) : BraceDepth(lines, j) > BraceDepth(lines, c - 1)}

\* The id of the class whose body textually declares line i: the innermost
\* of the enclosing ones.
DeclaringClass(lines, i, file_id) ==
    LET c == CHOOSE c \in EnclosingClasses(lines, i) :
                 \A d \in EnclosingClasses(lines, i) : d <= c
    IN  IF EnclosingClasses(lines, i) = {} THEN NoId
        ELSE <<file_id[1], lines[c].cls, c>>

\* The id of the Python class whose body holds a method of that name and line.
PyDeclaringClass(stmts, name, line, file_id) ==
    LET holds(k) == /\ stmts[k].kind = "class"
                    /\ \E m \in 1..Len(stmts[k].methods) :
                          /\ stmts[k].methods[m].name = name
                          /\ stmts[k].methods[m].line = line
        k == CHOOSE k \in 1..Len(stmts) : holds(k)
    IN  IF \E j \in 1..Len(stmts) : holds(j)
        THEN <<file_id[1], stmts[k].name, stmts[k].line>>
        ELSE NoId

\* C23: a Class or Interface node's parent is the File node of its file, a
\* Method node's parent is the Class node whose body textually declares the
\* method (also after a nested class has been opened and closed), and a
\* Function or Import node's parent is the File node of its file.
C23_ParentIsDeclarer ==
    \A i \in 1..Len(nodes) :
        LET n == nodes[i]
            file_id == <<n.id[1]>>
        IN  /\ n.type \in {CLASS, INTERFACE, FUNCTION, IMPORT} =>
                  n.parent_id = file_id /\ NodeGet(nodes, file_id).type = FILE
            /\ n.type = METHOD =>
                  /\ NodeGet(nodes, n.parent_id).type \in {CLASS, INTERFACE}
                  /\ n.parent_id =
                        IF language = "java"
                        THEN DeclaringClass(JavaSources[ContentOf(n)], n.line, file_id)
                        ELSE PyDeclaringClass(PythonSources[ContentOf(n)],
                                              n.name, n.line, file_id)

\* parse_file raises on this content: a Java file that does not decode, a
\* Python file ast.parse rejects or one holding a def too deep to visit.
ParseFails(lang, content) ==
    CASE lang = "java" ->
           \E i \in 1..Len(JavaSources[content]) : JavaSources[content][i].undecodable
      [] lang = "python" ->
           LET stmts == PythonSources[content]
           IN  \E k \in 1..Len(stmts) :
                  \/ stmts[k].kind = "syntax_error"
                  \/ stmts[k].kind = "def" /\ stmts[k].deep
                  \/ /\ stmts[k].kind = "class"
                     /\ \E m \in 1..Len(stmts[k].methods) : stmts[k].methods[m].deep
      [] OTHER -> FALSE

\* The selected files the scan has yielded.
Processed == {p \in Paths : repo[p] # 0 /\ p \notin pending}

\* C24: a file whose parsing raises does not abort the batch -- every file
\* the scan yields is processed and has its File node -- and that file
\* contributes its File node, no other node and no edge.
C24_FailedFileOnlyFileNode ==
    /\ \A p \in Processed : FileId(p) \in Ids(nodes)
    /\ file_count = Cardinality(Processed)
    /\ \A p \in Processed :
          ParseFails(language, repo[p]) =>
              /\ \A i \in 1..Len(nodes) :
                    nodes[i].id[1] = FileId(p)[1] => nodes[i].id = FileId(p)
              /\ \A k \in 1..Len(edges) : edges[k].source[1] # FileId(p)[1]

\* C25: with no node and no edge every stage completes: the resolver leaves
\* the edge list empty, the graph is empty, calculate_positions returns an
\* empty mapping, nothing is drawn, the export's hierarchical, nodes and edges
\* lists are empty, and get_statistics returns total_nodes 0, avg_degree 0
\* and max_depth 0.
C25_EmptyBuildCompletes ==
    (pc # "scan" /\ Len(nodes) = 0 /\ Len(pre_edges) = 0) =>
        /\ edges = <<>>
        /\ resolved_count = 0 /\ unresolved_count = 0
        /\ pc # "construct" => graph = EmptyGraph
        /\ DOMAIN CalculatePositions(nodes).positions = {}
        /\ positions = NoMeta /\ node_sizes = NoMeta
        /\ pc \in {"exported", "reported"} =>
              /\ exported # <<>>
              /\ exported[1].hierarchical = <<>>
              /\ exported[1].nodes = <<>>
              /\ exported[1].edges = <<>>
        /\ pc = "reported" =>
              /\ stats # NoStats
              /\ "raised" \notin DOMAIN stats[1]
              /\ stats[1].total_nodes = 0
              /\ stats[1].total_edges = 0
              /\ stats[1].avg_degree.num = 0 /\ stats[1].avg_degree.den # 0
              /\ stats[1].max_depth = 0

\* A repository whose only file lies below a hidden directory went through
\* every stage with no node and no edge, the resolver having run twice.
C25_Witness ==
    /\ pc = "reported"
    /\ repo[HiddenPath] # 0
    /\ Len(nodes) = 0 /\ Len(edges) = 0
    /\ resolver_calls = 2
    /\ exported # <<>> /\ exported[1].nodes = <<>>
    /\ stats # NoStats /\ stats[1].total_nodes = 0 /\ stats[1].max_depth = 0

\* seq begins with the elements of head, in their order.
StartsWith(seq, head) ==
    /\ Len(seq) >= Len(head)
    /\ \A i \in 1..Len(head) : seq[i] = head[i]

\* C26: no step removes or modifies a node, and only the processing of a file
\* adds nodes: resolution, graph construction, layout, export and statistics
\* leave self.nodes as it is.  self.edges is appended to when a file is
\* processed and is otherwise changed by the resolver alone, which only
\* rewrites or drops edges.
C26_OnlyResolverRewrites ==
    [][/\ StartsWith(nodes', nodes)
       /\ file_count' = file_count => nodes' = nodes
       /\ resolver_calls' = resolver_calls => StartsWith(edges', edges)
       /\ (resolver_calls' = resolver_calls /\ file_count' = file_count) =>
              edges' = edges
       /\ resolver_calls' # resolver_calls =>
              /\ Len(edges') <= Len(edges)
              /\ \A k \in 1..Len(edges') :
                    \E j \in 1..Len(edges) : edges'[k].source = edges[j].source]_vars

\* A build of two files is through every stage: the resolver rewrote and
\* dropped edges, and the export holds the nodes the scan left.
C26_Witness ==
    /\ pc = "reported"
    /\ file_count = 2
    /\ Len(nodes) > 4
    /\ resolved_count > 0 /\ unresolved_count > 0
    /\ Len(edges) < Len(pre_edges) \/ resolver_calls = 2
    /\ exported[1].nodes = nodes

\* The Class and Interface nodes of that name.
TypesNamed(name) ==
    {i \in 1..Len(nodes) : nodes[i].type \in {CLASS, INTERFACE} /\ nodes[i].name = name}

\* C27: the resolver changes an edge's kind only from 'calls' to
\* 'instantiates': an 'inherits' or 'implements' edge naming a class or an
\* interface declared in the repository survives the pass with its kind,
\* pointing at a Class or Interface node of that name, and no 'inherits' or
\* 'implements' edge points at a Function node.
C27_InheritanceKeepsKind ==
    resolver_calls > 0 =>
        /\ \A k \in 1..Len(pre_edges) :
              LET e == pre_edges[k]
              IN  (/\ e.type \in {"inherits", "implements"}
                   /\ IsUnresolved(e.target)
                   /\ TypesNamed(TargetName(e.target)) # {}) =>
                      \E j \in 1..Len(edges) :
                          /\ edges[j].source = e.source
                          /\ edges[j].type = e.type
                          /\ \E i \in TypesNamed(TargetName(e.target)) :
                                edges[j].target = nodes[i].id
        /\ \A j \in 1..Len(edges) :
              edges[j].type \in {"inherits", "implements"} =>
                  NodeGet(nodes, edges[j].target).type # FUNCTION

-----------------------------------------------------------------------------
(* Properties of the boxes, the coverage of the layout and the depth *)

\* Twice the x of the left and of the right side of a positioned node's box.
BoxLeft2(id) == 2 * positions[id][1] - node_sizes[id][1]
BoxRight2(id) == 2 * positions[id][1] + node_sizes[id][1]

RECURSIVE RootOf(_)
\* The root of the subtree a positioned node lies in.
RootOf(id) ==
    IF IsRoot(NodeGet(nodes, id)) THEN id ELSE RootOf(NodeGet(nodes, id).parent_id)

\* C28: boxes do not overlap horizontally: the right side of a child's box
\* is 50 left of the left side of the next child's, every child's box lies
\* within the horizontal extent of its parent's box, and two boxes of
\* different roots' subtrees are horizontally disjoint.
C28_BoxesDoNotOverlap ==
    LaidOut =>
        /\ \A i \in 1..Len(nodes) :
              LET n == nodes[i]
                  kids == ChildrenOf(n.id)
              IN  n.id \in DOMAIN positions =>
                    /\ \A j \in 1..(Len(kids) - 1) :
                          BoxRight2(kids[j]) + 2 * 50 = BoxLeft2(kids[j + 1])
                    /\ \A j \in 1..Len(kids) :
                          /\ BoxLeft2(n.id) <= BoxLeft2(kids[j])
                          /\ BoxRight2(kids[j]) <= BoxRight2(n.id)
        /\ \A a, b \in DOMAIN positions :
              RootOf(a) # RootOf(b) =>
                  BoxRight2(a) < BoxLeft2(b) \/ BoxRight2(b) < BoxLeft2(a)

\* A layout of two roots, the first a File over two leaves 50 apart that
\* lie within its box, the second right of all of them.
C28_Witness ==
    /\ LaidOut
    /\ Len(RootIds) = 2
    /\ \E i, j \in 1..Len(nodes) :
          LET kids == ChildrenOf(nodes[i].id)
          IN  /\ nodes[i].type = FILE
              /\ IsRoot(nodes[i]) /\ IsRoot(nodes[j])
              /\ nodes[i].id \in DOMAIN positions
              /\ Len(kids) = 2
              /\ BoxRight2(kids[1]) + 100 = BoxLeft2(kids[2])
              /\ BoxLeft2(nodes[i].id) < BoxLeft2(kids[1])
              /\ BoxRight2(nodes[i].id) < BoxLeft2(nodes[j].id)

\* The walk over parent_id from id leaves the node set: it ends at a node
\* without parent_id or with one that names no node.
ReachesRoot(id) ==
    LET chain == ParentChain(id, Len(nodes))
        last == chain[Len(chain)]
    IN  last = NoId \/ last \notin Ids(nodes)

\* The nodes on or below a cycle of parent_ids.
Unrooted == {nodes[i].id : i \in {j \in 1..Len(nodes) : ~ReachesRoot(nodes[j].id)}}

C30_DepthMatchesLayer ==
    LaidOut =>
        \A i \in 1..Len(nodes) :
            LET n == nodes[i]
            IN  n.id \in DOMAIN positions =>
                  /\ positions[n.id][2] = 150 * GetDepth(nodes, n.id, 0, 1)
                  /\ IsRoot(n) => GetDepth(nodes, n.id, 0, 1) = 0

====
